---- MODULE Spec2Model ----
(***************************************************************************)
(* Runtime abstraction layer of gastown: the Claude and Codex adapters      *)
(* (internal/runtime/claude, internal/runtime/codex), the readiness poll    *)
(* WaitForClaudeReady and the runtime registry (internal/runtime).          *)
(*                                                                          *)
(* One caller drives one adapter operation at a time.  An operation is      *)
(* split at the points where the Go code blocks (WaitForCommand,            *)
(* WaitForShellReady, time.Sleep); between two blocking points its          *)
(* statements run as one step.  The tmux sessions change only while time    *)
(* passes: during a blocking step or between two operations.                *)
(*                                                                          *)
(* Time is counted in units of 100 ms, relative to the start of the         *)
(* operation in progress.                                                   *)
(***************************************************************************)
EXTENDS Integers, Sequences, FiniteSets, TLC

\* ------------------------------------------------------------------------
\* Program constants (durations in units of 100 ms)
\* ------------------------------------------------------------------------
PollInterval == 2
ReadyTimeout == 20
ClaudeWarmup == 100
CodexWarmup == 50
NudgeSettle == 5
CaptureLines == 10

\* ------------------------------------------------------------------------
\* Bounds of the model
\* ------------------------------------------------------------------------
\* Longest time one capture-pane call takes, in units of 100 ms.  The
\* captures of one IsReady call all take the same time.
MaxCaptureCost == 1

\* ------------------------------------------------------------------------
\* Values
\* ------------------------------------------------------------------------
Nil == "nil"
Unset == -1

DeliveryStdin == "stdin"
DeliveryTmux == "tmux"
DeliveryRPC == "rpc"

ReadinessPrompt == "prompt"
ReadinessWarmup == "warmup"

Runtimes == {"claude", "codex"}
SessionIds == {"gt-a", "gt-b"}
Commands == {"", "agent --run"}
WorkDirs == {"", "/w"}
Texts == {"hello"}
\* Contents of the persisted session_id file, as the lines strings.Split
\* yields, and resume command templates.
Files ==
    {[present |-> FALSE, lines |-> <<>>],
     [present |-> TRUE, lines |-> << <<>> >>],
     [present |-> TRUE, lines |-> << <<" ">>, <<"s">> >>],
     [present |-> TRUE, lines |-> << <<" ", "s", " ">>, <<"x">> >>]}
Templates == {<<>>, <<"r">>}
Deliveries == {"", DeliveryTmux, DeliveryStdin, DeliveryRPC}

\* Error values.  The adapters build every error with errors.New, so an
\* error is identified by its message; BackendErr stands for any error
\* returned by a tmux call.
BackendErr == "tmux: backend error"
ErrRequiresTmux(rt) == rt \o " runtime requires tmux"
ErrRequiresSessionID(rt) == rt \o " runtime requires session id"
ErrRequiresCommand(rt) == rt \o " runtime requires command"
ErrClaudeDelivery == "claude runtime only supports tmux delivery"
ErrCodexDelivery == "codex runtime only supports tmux/stdin delivery"
ErrCodexNotFound == "codex runtime session not found"
\* fmt.Errorf("codex runtime resume missing session id in %s", workDir)
ErrCodexMissingID(workDir) == "codex runtime resume missing session id in " \o workDir
ErrCodexNoResumeCmd == "codex runtime resume command unavailable"
ErrShellNotReady == "tmux: shell not ready"
ErrClaudeNotImplemented == "claude runtime adapter not wired for this operation"

EmptyHandle ==
    [Runtime |-> "", SessionID |-> "", WorkDir |-> "", PID |-> 0,
     StartedAt |-> Unset, ReadyAt |-> Unset]

\* Foreground commands of a pane; SupportedShells are the shells
\* WaitForCommand waits to see replaced.
PaneCommands == {"bash", "node", "codex"}
SupportedShells == {"bash"}
ClaudeCommands == {"node"}


\* CodexCommands without "node".
CodexCommandsCodexOnly == {"codex"}

\* CodexCommands with the wrapping shell counted as the agent.
CodexCommandsWithShell == {"codex", "node", "bash"}

CodexCommands == {"codex", "node"}

VARIABLES
    sess,        \* tmux: session id -> [exists, cmd, pane]
    pc,          \* position of the caller: "idle" or a blocking point
    op,          \* the operation in progress or last completed
    calls,       \* tmux calls issued by that operation, in order (captures excepted)
    ncap,        \* CapturePaneLines calls issued by that operation
    capSeen,     \* results of those captures: TRUE for lines, FALSE for an error
    elapsed,     \* time since that operation was called
    cancelled,   \* the operation's ctx was cancelled while it ran
    afterCancel, \* time the operation went on waiting after the cancellation
    deadline,    \* WaitForClaudeReady: deadline of the poll loop
    latency,     \* time one CapturePaneLines call takes during that operation
    resumeCmd,   \* Resume: the resume command built before the wait for the shell
    res,         \* result of the last completed operation
    registry,    \* the registry map: runtime name -> factory
    lastWrite,   \* per name, the factory of the latest Register that wrote it
    replaced,    \* per name, the factories a later Register has replaced
    rwWriter,    \* registryMu: the goroutine holding the write lock
    rwReaders,   \* registryMu: the goroutines holding the read lock
    rpc,         \* per goroutine, its position in a registry call
    rreq,        \* per goroutine, the registry call it is in
    rres,        \* per goroutine, what that call has produced
    files        \* the file system: path of a registry config -> what is there

\* What the registry leaves alone, and what the adapters leave alone; neither
\* touches the configuration files.
adapterVars == <<sess, pc, op, calls, ncap, capSeen, elapsed, cancelled,
                 afterCancel, deadline, latency, resumeCmd, res, files>>

regVars == <<registry, lastWrite, replaced, rwWriter, rwReaders, rpc, rreq, rres, files>>

vars == <<adapterVars, regVars>>

\* ------------------------------------------------------------------------
\* Pane text.  A line is a sequence of characters.
\* ------------------------------------------------------------------------
LinePrompt == <<">", " ">>
LineBuilding == <<"b">>
LineQuoted == <<">", "b">>
LineTrailing == <<"b", ">">>

PaneEmpty == <<>>
PanePrompt == <<LineBuilding, LinePrompt>>
PaneNearMiss == <<LineQuoted, LineTrailing>>
PaneScrolled == <<LinePrompt>> \o [i \in 1..CaptureLines |-> LineBuilding]
Panes == {PaneEmpty, PanePrompt, PaneNearMiss, PaneScrolled}

RECURSIVE TrimLeft(_)
TrimLeft(l) == IF l # <<>> /\ Head(l) = " " THEN TrimLeft(Tail(l)) ELSE l

RECURSIVE TrimRight(_)
TrimRight(l) ==
    IF l # <<>> /\ l[Len(l)] = " " THEN TrimRight(SubSeq(l, 1, Len(l) - 1)) ELSE l

TrimSpace(l) == TrimRight(TrimLeft(l))

HasPrefix(l, p) == Len(l) >= Len(p) /\ SubSeq(l, 1, Len(p)) = p

LastLines(lines, n) ==
    IF Len(lines) <= n THEN lines ELSE SubSeq(lines, Len(lines) - n + 1, Len(lines))

\* ------------------------------------------------------------------------
\* tmux
\* ------------------------------------------------------------------------
NoSession == [exists |-> FALSE, cmd |-> "bash", pane |-> PaneEmpty]
NewSession == [exists |-> TRUE, cmd |-> "bash", pane |-> PaneEmpty]

Exists(s) == s \in SessionIds /\ sess[s].exists

\* The directory tmux reports for a session's pane.
PaneWorkDir(s) == IF s = "gt-a" THEN "/w" ELSE "/w/"

Call(m, s, a, ok, at) == [m |-> m, s |-> s, a |-> a, ok |-> ok, at |-> at]

\* Results a tmux call on session s can have: any call can fail, and a call
\* that addresses a session fails when that session does not exist.
TmuxOutcomes(s) == IF Exists(s) THEN {TRUE, FALSE} ELSE {FALSE}

\* SendKeys: one call that injects the line and presses Enter.
TmuxSendKeys(s, keys, ok, at) == <<Call("SendKeys", s, keys, ok, at)>>

\* NudgeSession: the text in literal mode, a settle delay, then Enter as a
\* separate call.  ok1 and ok2 are the results of the two injections.
TmuxNudgeSession(s, text, ok1, ok2, at) ==
    IF ok1
    THEN <<Call("SendLiteral", s, text, TRUE, at),
           Call("SendEnter", s, "", ok2, at + NudgeSettle)>>
    ELSE <<Call("SendLiteral", s, text, FALSE, at)>>

\* IsClaudeRunning: the session exists and Claude is its foreground command.
TmuxIsClaudeRunning(s) == Exists(s) /\ sess[s].cmd \in ClaudeCommands

\* CapturePaneLines: the last n lines of the pane.
TmuxCapturePaneLines(s, n) == LastLines(sess[s].pane, n)

\* WaitForShellReady returns nil once the foreground command is a shell, and
\* an error when the timeout passes first.
TmuxWaitForShellReady(s) == Exists(s) /\ sess[s].cmd \in SupportedShells

\* The sessions in the order tmux lists them.
SessionOrder == <<"gt-a", "gt-b">>

InOrder(S) == SelectSeq(SessionOrder, LAMBDA s : s \in S)

\* ListSessions: the names of the sessions; blank: the listing carries an
\* empty name.
TmuxListSessions(blank) ==
    InOrder({s \in SessionIds : Exists(s)}) \o (IF blank THEN <<"">> ELSE <<>>)

\* FindSessionByWorkDir: the sessions whose pane directory is dir; with
\* claudeOnly, those of them that run Claude.
TmuxFindSessionByWorkDir(dir, claudeOnly) ==
    InOrder({s \in SessionIds :
               /\ Exists(s)
               /\ PaneWorkDir(s) = dir
               /\ claudeOnly => TmuxIsClaudeRunning(s)})

\* GetPaneWorkDir: the pane directory, or "" with an error.
TmuxGetPaneWorkDir(s, ok) == IF ok THEN PaneWorkDir(s) ELSE ""

\* WaitForCommand returns nil once the foreground command is none of the
\* excluded shells, and an error when the timeout passes first.
TmuxWaitForCommand(s) == Exists(s) /\ sess[s].cmd \notin SupportedShells

\* ------------------------------------------------------------------------
\* Runtime registry
\* ------------------------------------------------------------------------
Procs == {"g1", "g2"}
NoProc == "none"

\* Names a caller registers, and one more that a caller may look up.
RegNames == {"claude", "codex"}
LookupNames == RegNames \cup {"gemini"}

\* The factories: the function literals of the adapters' init functions.
Factories == {"claude.New", "codex.New"}
NoFactory == "none"

ErrNotRegistered(name) == "runtime not registered: " \o name

\* An adapter value; bound: its tmux field is not nil.
NilAdapter == [rt |-> "", bound |-> FALSE, ReadinessMode |-> ""]

ClaudeNew(t) == [rt |-> "claude", bound |-> t, ReadinessMode |-> ReadinessPrompt]

CodexNew(t) == [rt |-> "codex", bound |-> t, ReadinessMode |-> ReadinessWarmup]

\* factory(t)
Build(factory, t) == IF factory = "claude.New" THEN ClaudeNew(t) ELSE CodexNew(t)

NoRegRequest == [op |-> "none", name |-> "", factory |-> NoFactory, backend |-> FALSE]

\* adapter, err: the results of Get; names: the result of Names; invoked: the
\* factory calls made, each with its argument; seen: the latest factory
\* registered under the name when Get looked it up.
NoRegResult ==
    [adapter |-> NilAdapter, err |-> Nil, names |-> <<>>, invoked |-> <<>>,
     seen |-> NoFactory]

\* ------------------------------------------------------------------------
\* Operations: requests and results
\* ------------------------------------------------------------------------
\* A request: the operation, the adapter (rt, and bound: its tmux field is
\* set) and the fields of the arguments the operation reads.
\*   sid, wd   SessionID and WorkDir of the StartOptions or SessionHandle
\*   arg       the launch command or the message text
\*   dlv       Message.Delivery
\*   frt, fwd  Runtime and WorkDir of the SessionFilter
\*   file      the session_id file under the working directory Resume reads
\*   tmpl      the resume command template of the configuration
NoFile == [present |-> FALSE, lines |-> <<>>]

NoOp == [name |-> "none", rt |-> "", bound |-> FALSE, sid |-> "", wd |-> "",
         arg |-> "", dlv |-> "", frt |-> "", fwd |-> "", file |-> NoFile,
         tmpl |-> <<>>]

Request(name, rt, bound) == [NoOp EXCEPT !.name = name, !.rt = rt, !.bound = bound]

NoResult == [err |-> Nil, handle |-> EmptyHandle, ok |-> FALSE, handles |-> <<>>]
ErrResult(e) == [NoResult EXCEPT !.err = e]
BoolResult(b) == [NoResult EXCEPT !.ok = b]

Blocking == {"start_wait", "start_sleep", "poll_sleep", "resume_shell",
             "resume_wait", "resume_sleep"}
Done == pc = "idle" /\ op.name # "none"

\* An operation is called.
Enter(o) ==
    /\ pc = "idle"
    /\ op = NoOp
    /\ op' = o
    /\ UNCHANGED regVars
    /\ cancelled' = FALSE
    /\ afterCancel' = 0

NoPoll == ncap' = 0 /\ capSeen' = {} /\ deadline' = 0 /\ latency' = 0

NoResume == resumeCmd' = <<>>

Min(a, b) == IF a <= b THEN a ELSE b

\* The operation waits d more units of time; afterCancel counts the waiting
\* done after the cancellation, up to one poll interval.
WaitMore(d) ==
    afterCancel' = IF cancelled THEN Min(afterCancel + d, PollInterval) ELSE 0

\* An operation returns r at time t, having issued the calls cs.
Return(r, cs, t) ==
    /\ pc' = "idle"
    /\ res' = r
    /\ calls' = cs
    /\ elapsed' = t

\* ------------------------------------------------------------------------
\* Runtime registry configuration file (config/runtime_registry.go)
\* ------------------------------------------------------------------------
\* A string is a sequence of its parts; InvalidByte is a byte that is not
\* valid UTF-8 and ReplacementRune is U+FFFD.
InvalidByte == "\\xff"
ReplacementRune == "\\ufffd"

\* encoding/json writes a string coerced to valid UTF-8.
ToValidUTF8(str) ==
    [i \in DOMAIN str |-> IF str[i] = InvalidByte THEN ReplacementRune ELSE str[i]]

CfgPaths == {"/h/.gastown/runtimes.json", "/r/runtimes.json"}

\* A Go map: nil, or made and holding the entries m.
NilMap == [nil |-> TRUE, m |-> <<>>]
MakeMap(m) == [nil |-> FALSE, m |-> m]

CfgNames == {<<"claude">>, <<"codex", InvalidByte>>}

\* A RuntimeAdapterConfig.
AdapterConfig(bin, ready, delivery) == [bin |-> bin, ready |-> ready, delivery |-> delivery]

ClaudeConfig == AdapterConfig(<<"claude">>, <<"prompt">>, <<"tmux">>)
CodexConfig == AdapterConfig(<<"codex">>, <<"warmup">>, <<"stdin">>)

RuntimesMaps ==
    {NilMap, MakeMap(<<>>),
     MakeMap([k \in {<<"claude">>} |-> ClaudeConfig]),
     MakeMap([k \in {<<"claude">>, <<"codex">>} |->
                 IF k = <<"claude">> THEN ClaudeConfig ELSE CodexConfig])}

\* The configurations a caller saves: RuntimeRegistryConfig values.
Configs == {[Default |-> d, Runtimes |-> r] : d \in CfgNames \cup {<<>>}, r \in RuntimesMaps}

NilConfig == [Default |-> <<>>, Runtimes |-> NilMap]

\* What a path holds: no file ("absent"), something ReadFile cannot read
\* ("unreadable"), bytes that are not JSON ("garbage"), or a JSON object
\* ("json") with the two members the configuration reads; a member is
\* "absent", "null" or a "value".
JMember(is, v) == [is |-> is, v |-> v]

CfgFile(kind, default, runtimes) == [kind |-> kind, default |-> default, runtimes |-> runtimes]

CfgAbsent == CfgFile("absent", JMember("absent", <<>>), JMember("absent", <<>>))
CfgUnreadable == CfgFile("unreadable", JMember("absent", <<>>), JMember("absent", <<>>))
CfgGarbage == CfgFile("garbage", JMember("absent", <<>>), JMember("absent", <<>>))

\* The JSON object written for a map: keys and strings coerced.
MarshalMap(m) ==
    [k \in {ToValidUTF8(x) : x \in DOMAIN m} |->
        LET e == m[CHOOSE x \in DOMAIN m : ToValidUTF8(x) = k] IN
        AdapterConfig(ToValidUTF8(e.bin), ToValidUTF8(e.ready), ToValidUTF8(e.delivery))]

\* json.MarshalIndent(config, "", "  ")
MarshalIndent(config) ==
    CfgFile("json",
            JMember("value", ToValidUTF8(config.Default)),
            IF config.Runtimes.nil THEN JMember("null", <<>>)
            ELSE JMember("value", MarshalMap(config.Runtimes.m)))

\* json.Unmarshal(data, &config) into the zero configuration.
Unmarshal(doc) ==
    [Default |-> IF doc.default.is = "value" THEN doc.default.v ELSE <<>>,
     Runtimes |-> IF doc.runtimes.is = "value" THEN MakeMap(doc.runtimes.v) ELSE NilMap]

\* The files someone else may leave at a path.
Documents ==
    {CfgUnreadable, CfgGarbage,
     CfgFile("json", JMember("value", <<"claude">>), JMember("absent", <<>>)),
     CfgFile("json", JMember("absent", <<>>), JMember("null", <<>>)),
     CfgFile("json", JMember("value", <<"codex">>),
             JMember("value", [k \in {<<"codex">>} |-> CodexConfig]))}

\* Errors of the configuration functions: the message and the errors
\* wrapped; the nil error has neither.
CfgErr(msg, wrapped) == [msg |-> msg, wraps |-> wrapped]

NilErr == CfgErr(<<>>, {})

\* errors.Is(err, target)
ErrorsIs(err, target) == target \in err.wraps

NoCfgResult == [config |-> NilConfig, err |-> NilErr]

NoCfgRequest == [op |-> "none", path |-> "", config |-> NilConfig]


\* LoadResult returning the configuration as Unmarshal left it.
LoadResultAsParsed(path, file) ==
    IF file.kind = "absent"
    THEN [NoCfgResult EXCEPT !.err = CfgErr(<<"ErrNotFound", ": ", path>>, {"ErrNotFound"})]
    ELSE IF file.kind = "unreadable"
    THEN [NoCfgResult EXCEPT !.err = CfgErr(<<"reading runtime registry">>, {"os"})]
    ELSE IF file.kind = "garbage"
    THEN [NoCfgResult EXCEPT !.err = CfgErr(<<"parsing runtime registry">>, {"json"})]
    ELSE [NoCfgResult EXCEPT !.config = Unmarshal(file)]

\* LoadRuntimeRegistryConfig: what it returns for what the path holds.
LoadResult(path, file) ==
    IF file.kind = "absent"
    THEN [NoCfgResult EXCEPT !.err = CfgErr(<<"ErrNotFound", ": ", path>>, {"ErrNotFound"})]
    ELSE IF file.kind = "unreadable"
    THEN [NoCfgResult EXCEPT !.err = CfgErr(<<"reading runtime registry">>, {"os"})]
    ELSE IF file.kind = "garbage"
    THEN [NoCfgResult EXCEPT !.err = CfgErr(<<"parsing runtime registry">>, {"json"})]
    ELSE LET config == Unmarshal(file) IN
         [NoCfgResult EXCEPT !.config =
             IF config.Runtimes.nil THEN [config EXCEPT !.Runtimes = MakeMap(<<>>)]
             ELSE config]

Init ==
    /\ sess = [s \in SessionIds |-> NoSession]
    /\ pc = "idle"
    /\ op = NoOp
    /\ calls = <<>>
    /\ ncap = 0
    /\ capSeen = {}
    /\ elapsed = 0
    /\ cancelled = FALSE
    /\ afterCancel = 0
    /\ deadline = 0
    /\ latency = 0
    /\ resumeCmd = <<>>
    /\ res = NoResult
    /\ registry = [n \in RegNames |-> NoFactory]
    /\ lastWrite = [n \in RegNames |-> NoFactory]
    /\ replaced = [n \in RegNames |-> {}]
    /\ rwWriter = NoProc
    /\ rwReaders = {}
    /\ rpc = [p \in Procs |-> "idle"]
    /\ rreq = [p \in Procs |-> NoRegRequest]
    /\ rres = [p \in Procs |-> NoRegResult]
    /\ files = [f \in CfgPaths |-> CfgAbsent]

\* ------------------------------------------------------------------------
\* Start
\* ------------------------------------------------------------------------
ClaudeStartCheck(bound, sid, command) ==
    IF ~bound THEN ErrRequiresTmux("claude")
    ELSE IF sid = "" THEN ErrRequiresSessionID("claude")
    ELSE IF command = "" THEN ErrRequiresCommand("claude")
    ELSE Nil


\* CodexStartCheck without the check of the launch command.
CodexStartCheckNoCommand(bound, sid, command) ==
    IF ~bound THEN ErrRequiresTmux("codex")
    ELSE IF sid = "" THEN ErrRequiresSessionID("codex")
    ELSE Nil

CodexStartCheck(bound, sid, command) ==
    IF ~bound THEN ErrRequiresTmux("codex")
    ELSE IF sid = "" THEN ErrRequiresSessionID("codex")
    ELSE IF command = "" THEN ErrRequiresCommand("codex")
    ELSE Nil

StartCheck(rt, bound, sid, command) ==
    IF rt = "claude" THEN ClaudeStartCheck(bound, sid, command)
    ELSE CodexStartCheck(bound, sid, command)


\* StartWaitErr ending Start in a failure of its own when the wait fails.
StartWaitErrFatal(waitOk) == IF waitOk THEN Nil ELSE ErrShellNotReady

\* StartWaitErr returning the error of WaitForCommand instead of dropping it.
StartWaitErrReturned(waitOk) == IF waitOk THEN Nil ELSE BackendErr

\* The error Start returns for the result of WaitForCommand: the result is
\* assigned to the blank identifier.
StartWaitErr(waitOk) == Nil

Warmup(rt) == IF rt = "claude" THEN ClaudeWarmup ELSE CodexWarmup


\* StartHandle recording the time of return as the time of readiness too.
StartHandleReady(rt, sid, wd, now) ==
    [Runtime |-> rt, SessionID |-> sid, WorkDir |-> wd, PID |-> 0,
     StartedAt |-> now, ReadyAt |-> now]

StartHandle(rt, sid, wd, now) ==
    [Runtime |-> rt, SessionID |-> sid, WorkDir |-> wd, PID |-> 0,
     StartedAt |-> now, ReadyAt |-> Unset]

Start(rt, bound, sid, command, wd) ==
    /\ Enter([Request("Start", rt, bound) EXCEPT !.sid = sid, !.arg = command, !.wd = wd])
    /\ NoPoll
    /\ NoResume
    /\ UNCHANGED sess
    /\ LET e == StartCheck(rt, bound, sid, command) IN
       IF e # Nil
       THEN Return(ErrResult(e), <<>>, 0)
       ELSE \E ok \in TmuxOutcomes(sid) :
              IF ok
              THEN /\ pc' = "start_wait"
                   /\ res' = NoResult
                   /\ calls' = TmuxSendKeys(sid, command, TRUE, 0)
                   /\ elapsed' = 0
              ELSE Return(ErrResult(BackendErr), TmuxSendKeys(sid, command, FALSE, 0), 0)

\* WaitForCommand has returned.
StartWaited ==
    /\ pc = "start_wait"
    /\ UNCHANGED regVars
    /\ LET ok == TmuxWaitForCommand(op.sid)
           cs == Append(calls, Call("WaitForCommand", op.sid, "", ok, elapsed))
       IN IF StartWaitErr(ok) # Nil
          THEN Return(ErrResult(StartWaitErr(ok)), cs, elapsed)
          ELSE /\ pc' = "start_sleep"
               /\ calls' = cs
               /\ UNCHANGED <<res, elapsed>>
    /\ UNCHANGED <<sess, op, ncap, capSeen, cancelled, afterCancel, deadline, latency, resumeCmd>>

\* time.Sleep has returned: Start returns the handle.
StartSlept ==
    /\ pc = "start_sleep"
    /\ UNCHANGED regVars
    /\ LET now == elapsed + Warmup(op.rt) IN
       Return([NoResult EXCEPT !.handle = StartHandle(op.rt, op.sid, op.wd, now)],
              calls, now)
    /\ WaitMore(Warmup(op.rt))
    /\ UNCHANGED <<sess, op, ncap, capSeen, cancelled, deadline, latency, resumeCmd>>

\* ------------------------------------------------------------------------
\* SendMessage
\* ------------------------------------------------------------------------

\* ClaudeSendMessageCheck letting stdin delivery through, as Codex does.
ClaudeSendMessageCheckStdin(bound, dlv) ==
    IF ~bound THEN ErrRequiresTmux("claude")
    ELSE IF dlv \in {"", DeliveryTmux, DeliveryStdin} THEN Nil
    ELSE ErrClaudeDelivery

\* ClaudeSendMessageCheck taking the tmux path only when it is named.
ClaudeSendMessageCheckExplicit(bound, dlv) ==
    IF ~bound THEN ErrRequiresTmux("claude")
    ELSE IF dlv # DeliveryTmux THEN ErrClaudeDelivery
    ELSE Nil

ClaudeSendMessageCheck(bound, dlv) ==
    IF ~bound THEN ErrRequiresTmux("claude")
    ELSE IF dlv # "" /\ dlv # DeliveryTmux THEN ErrClaudeDelivery
    ELSE Nil

CodexSendMessageCheck(bound, dlv) ==
    IF ~bound THEN ErrRequiresTmux("codex")
    ELSE IF dlv \in {"", DeliveryTmux, DeliveryStdin} THEN Nil
    ELSE ErrCodexDelivery

SendMessageCheck(rt, bound, dlv) ==
    IF rt = "claude" THEN ClaudeSendMessageCheck(bound, dlv)
    ELSE CodexSendMessageCheck(bound, dlv)

\* The tmux calls by which each adapter delivers the text.
ClaudeDeliver(sid, text, ok1, ok2) == TmuxNudgeSession(sid, text, ok1, ok2, 0)

CodexDeliver(sid, text, ok1, ok2) == TmuxSendKeys(sid, text, ok1, 0)

Deliver(rt, sid, text, ok1, ok2) ==
    IF rt = "claude" THEN ClaudeDeliver(sid, text, ok1, ok2)
    ELSE CodexDeliver(sid, text, ok1, ok2)


\* AllOk taking every delivery for a success.
AllOkAlways(cs) == TRUE

AllOk(cs) == \A i \in 1..Len(cs) : cs[i].ok

SendMessage(rt, bound, sid, text, dlv) ==
    /\ Enter([Request("SendMessage", rt, bound) EXCEPT !.sid = sid, !.arg = text, !.dlv = dlv])
    /\ NoPoll
    /\ NoResume
    /\ UNCHANGED sess
    /\ LET e == SendMessageCheck(rt, bound, dlv) IN
       IF e # Nil
       THEN Return(ErrResult(e), <<>>, 0)
       ELSE \E ok1 \in TmuxOutcomes(sid), ok2 \in BOOLEAN :
              LET cs == Deliver(rt, sid, text, ok1, ok2) IN
              Return(IF AllOk(cs) THEN NoResult ELSE ErrResult(BackendErr),
                     cs, cs[Len(cs)].at)

\* ------------------------------------------------------------------------
\* Stop
\* ------------------------------------------------------------------------
ClaudeStopCheck(bound) == IF ~bound THEN ErrRequiresTmux("claude") ELSE Nil


\* CodexStopCheck without the nil check of the tmux field.
CodexStopCheckNoBackend(bound) == Nil

CodexStopCheck(bound) == IF ~bound THEN ErrRequiresTmux("codex") ELSE Nil

StopCheck(rt, bound) ==
    IF rt = "claude" THEN ClaudeStopCheck(bound) ELSE CodexStopCheck(bound)


\* StopResult dropping the error of KillSession.
StopResultDropped(ok) == NoResult

\* return r.tmux.KillSession(handle.SessionID)
StopResult(ok) == IF ok THEN NoResult ELSE ErrResult(BackendErr)

Stop(rt, bound, sid) ==
    /\ Enter([Request("Stop", rt, bound) EXCEPT !.sid = sid])
    /\ NoPoll
    /\ NoResume
    /\ LET e == StopCheck(rt, bound) IN
       IF e # Nil
       THEN Return(ErrResult(e), <<>>, 0) /\ UNCHANGED sess
       ELSE \E ok \in TmuxOutcomes(sid) :
              /\ Return(StopResult(ok), <<Call("KillSession", sid, "", ok, 0)>>, 0)
              /\ sess' = IF ok THEN [sess EXCEPT ![sid] = NoSession] ELSE sess

\* ------------------------------------------------------------------------
\* DetectRunning and IsReady
\* ------------------------------------------------------------------------
ClaudeDetectRunningCheck(bound) == IF ~bound THEN ErrRequiresTmux("claude") ELSE Nil

CodexDetectRunningCheck(bound) == IF ~bound THEN ErrRequiresTmux("codex") ELSE Nil

ClaudeIsReadyCheck(bound) == IF ~bound THEN ErrRequiresTmux("claude") ELSE Nil

CodexIsReadyCheck(bound) == IF ~bound THEN ErrRequiresTmux("codex") ELSE Nil


\* IsCodexRunning reading the foreground command of an absent session too.
IsCodexRunningAlwaysReads(sid, hasOk, cmdOk) ==
    LET has == Call("HasSession", sid, "", hasOk, 0)
        get == Call("GetPaneCommand", sid, "", cmdOk, 0)
    IN IF ~hasOk THEN [running |-> FALSE, err |-> BackendErr, calls |-> <<has>>]
       ELSE IF ~cmdOk THEN [running |-> FALSE, err |-> BackendErr, calls |-> <<has, get>>]
       ELSE [running |-> Exists(sid) /\ sess[sid].cmd \in CodexCommands, err |-> Nil,
             calls |-> <<has, get>>]

\* isCodexRunning, given the results hasOk of HasSession and cmdOk of
\* GetPaneCommand: the answer, the error and the tmux calls made.
IsCodexRunning(sid, hasOk, cmdOk) ==
    LET has == Call("HasSession", sid, "", hasOk, 0)
        get == Call("GetPaneCommand", sid, "", cmdOk, 0)
    IN IF ~hasOk THEN [running |-> FALSE, err |-> BackendErr, calls |-> <<has>>]
       ELSE IF ~Exists(sid) THEN [running |-> FALSE, err |-> Nil, calls |-> <<has>>]
       ELSE IF ~cmdOk THEN [running |-> FALSE, err |-> BackendErr, calls |-> <<has, get>>]
       ELSE [running |-> sess[sid].cmd \in CodexCommands, err |-> Nil,
             calls |-> <<has, get>>]

CodexDetectRunning(sid, hasOk, cmdOk) ==
    LET r == IsCodexRunning(sid, hasOk, cmdOk) IN
    [res |-> [NoResult EXCEPT !.ok = r.running, !.err = r.err], calls |-> r.calls]

\* CodexIsReady answering false without the error, as the Claude adapter does.
CodexIsReadyHidesErr(sid, hasOk, cmdOk) ==
    LET r == IsCodexRunning(sid, hasOk, cmdOk) IN
    [res |-> BoolResult(r.running), calls |-> r.calls]

CodexIsReady(sid, hasOk, cmdOk) ==
    LET r == IsCodexRunning(sid, hasOk, cmdOk) IN
    IF r.err # Nil
    THEN [res |-> ErrResult(r.err), calls |-> r.calls]
    ELSE [res |-> BoolResult(r.running), calls |-> r.calls]

\* ClaudeDetectRunning probing the session with an injected empty line.
ClaudeDetectRunningProbes(sid) ==
    [res |-> BoolResult(TmuxIsClaudeRunning(sid)),
     calls |-> <<Call("SendKeys", sid, "", TRUE, 0)>>]

ClaudeDetectRunning(sid) ==
    [res |-> BoolResult(TmuxIsClaudeRunning(sid)),
     calls |-> <<Call("IsClaudeRunning", sid, "", TRUE, 0)>>]

DetectRunning(rt, bound, sid) ==
    /\ Enter([Request("DetectRunning", rt, bound) EXCEPT !.sid = sid])
    /\ NoPoll
    /\ NoResume
    /\ UNCHANGED sess
    /\ IF rt = "claude"
       THEN IF ClaudeDetectRunningCheck(bound) # Nil
            THEN Return(ErrResult(ClaudeDetectRunningCheck(bound)), <<>>, 0)
            ELSE Return(ClaudeDetectRunning(sid).res, ClaudeDetectRunning(sid).calls, 0)
       ELSE IF CodexDetectRunningCheck(bound) # Nil
            THEN Return(ErrResult(CodexDetectRunningCheck(bound)), <<>>, 0)
            ELSE \E hasOk \in BOOLEAN, cmdOk \in BOOLEAN :
                   LET r == CodexDetectRunning(sid, hasOk, cmdOk) IN
                   Return(r.res, r.calls, 0)


\* IsPromptLine without the comparison with the bare marker.
IsPromptLinePrefixOnly(line) == HasPrefix(TrimSpace(line), <<">", " ">>)


\* IsPromptLine taking every trimmed line that begins with ">".
IsPromptLineMarkerPrefix(line) == HasPrefix(TrimSpace(line), <<">">>)

\* WaitForClaudeReady: a line of the capture is the prompt.
IsPromptLine(line) ==
    LET trimmed == TrimSpace(line) IN
    HasPrefix(trimmed, <<">", " ">>) \/ trimmed = <<">">>

PromptVisible(lines) == \E i \in 1..Len(lines) : IsPromptLine(lines[i])

\* WaitForClaudeReady: the loop condition time.Now().Before(deadline).
PollGoesOn(now, dl) == now < dl


\* ClaudeIsReadyResult returning the error of WaitForClaudeReady.
ClaudeIsReadyResultErr(timedOut) ==
    IF timedOut THEN ErrResult(BackendErr) ELSE BoolResult(TRUE)

\* IsReady's result for the error of WaitForClaudeReady.
ClaudeIsReadyResult(timedOut) == IF timedOut THEN BoolResult(FALSE) ELSE BoolResult(TRUE)



\* Poll taking the prompt for one only while Claude is the foreground command.
PollChecksCommand(sid, t, dl, n, seen, cost) ==
    IF ~PollGoesOn(t, dl)
    THEN /\ Return(ClaudeIsReadyResult(TRUE), <<>>, t)
         /\ ncap' = n
         /\ capSeen' = seen
    ELSE \E ok \in TmuxOutcomes(sid) :
           /\ ncap' = n + 1
           /\ capSeen' = seen \cup {ok}
           /\ IF /\ ok
                 /\ TmuxIsClaudeRunning(sid)
                 /\ PromptVisible(TmuxCapturePaneLines(sid, CaptureLines))
              THEN Return(ClaudeIsReadyResult(FALSE), <<>>, t + cost)
              ELSE /\ pc' = "poll_sleep"
                   /\ res' = NoResult
                   /\ calls' = <<>>
                   /\ elapsed' = t + cost

\* Poll sleeping one more interval after the capture that shows the prompt.
PollSleepsAfterMatch(sid, t, dl, n, seen, cost) ==
    IF ~PollGoesOn(t, dl)
    THEN /\ Return(ClaudeIsReadyResult(TRUE), <<>>, t)
         /\ ncap' = n
         /\ capSeen' = seen
    ELSE \E ok \in TmuxOutcomes(sid) :
           /\ ncap' = n + 1
           /\ capSeen' = seen \cup {ok}
           /\ IF ok /\ PromptVisible(TmuxCapturePaneLines(sid, CaptureLines))
              THEN Return(ClaudeIsReadyResult(FALSE), <<>>, t + cost + PollInterval)
              ELSE /\ pc' = "poll_sleep"
                   /\ res' = NoResult
                   /\ calls' = <<>>
                   /\ elapsed' = t + cost

\* WaitForClaudeReady from its loop condition, evaluated at time t after n
\* captures with results seen, a capture taking time cost: either the loop ends and IsReady returns, or
\* one capture is made and the caller sleeps.
Poll(sid, t, dl, n, seen, cost) ==
    IF ~PollGoesOn(t, dl)
    THEN /\ Return(ClaudeIsReadyResult(TRUE), <<>>, t)
         /\ ncap' = n
         /\ capSeen' = seen
    ELSE \E ok \in TmuxOutcomes(sid) :
           /\ ncap' = n + 1
           /\ capSeen' = seen \cup {ok}
           /\ IF ok /\ PromptVisible(TmuxCapturePaneLines(sid, CaptureLines))
              THEN Return(ClaudeIsReadyResult(FALSE), <<>>, t + cost)
              ELSE /\ pc' = "poll_sleep"
                   /\ res' = NoResult
                   /\ calls' = <<>>
                   /\ elapsed' = t + cost

IsReady(rt, bound, sid) ==
    /\ Enter([Request("IsReady", rt, bound) EXCEPT !.sid = sid])
    /\ NoResume
    /\ UNCHANGED sess
    /\ IF rt = "claude"
       THEN IF ClaudeIsReadyCheck(bound) # Nil
            THEN Return(ErrResult(ClaudeIsReadyCheck(bound)), <<>>, 0) /\ NoPoll
            ELSE \E cost \in 0..MaxCaptureCost :
                   /\ deadline' = 0 + ReadyTimeout
                   /\ latency' = cost
                   /\ Poll(sid, 0, 0 + ReadyTimeout, 0, {}, cost)
       ELSE /\ NoPoll
            /\ IF CodexIsReadyCheck(bound) # Nil
               THEN Return(ErrResult(CodexIsReadyCheck(bound)), <<>>, 0)
               ELSE \E hasOk \in BOOLEAN, cmdOk \in BOOLEAN :
                      LET r == CodexIsReady(sid, hasOk, cmdOk) IN
                      Return(r.res, r.calls, 0)

\* time.Sleep(200ms) in WaitForClaudeReady has returned.
PollSlept ==
    /\ pc = "poll_sleep"
    /\ UNCHANGED regVars
    /\ Poll(op.sid, elapsed + PollInterval, deadline, ncap, capSeen, latency)
    /\ WaitMore(PollInterval)
    /\ UNCHANGED <<sess, op, cancelled, deadline, latency, resumeCmd>>

\* ------------------------------------------------------------------------
\* Resume
\* ------------------------------------------------------------------------
CodexResumeCheck(bound, sid) ==
    IF ~bound THEN ErrRequiresTmux("codex")
    ELSE IF sid = "" THEN ErrRequiresSessionID("codex")
    ELSE Nil


\* ReadSessionID returning the first line as it stands, untrimmed.
ReadSessionIDUntrimmed(workDir, file) ==
    IF workDir = "" THEN <<>>
    ELSE IF ~file.present THEN <<>>
    ELSE IF Len(file.lines) = 0 THEN <<>>
    ELSE file.lines[1]

\* readSessionID: the trimmed first line of the file, "" without one.
ReadSessionID(workDir, file) ==
    IF workDir = "" THEN <<>>
    ELSE IF ~file.present THEN <<>>
    ELSE IF Len(file.lines) = 0 THEN <<>>
    ELSE TrimSpace(file.lines[1])

\* config.BuildResumeCommand: the template filled with the session id, ""
\* without a template.
BuildResumeCommand(tmpl, sessionID) ==
    IF tmpl = <<>> THEN <<>> ELSE tmpl \o <<" ">> \o sessionID



\* CodexResumeBegin returning the error of isCodexRunning to the caller.
CodexResumeBeginRunErr(sid, wd, file, tmpl, has1, has2, cmdOk, dirOk) ==
    LET c1 == <<Call("HasSession", sid, "", has1, 0)>>
        run == IsCodexRunning(sid, has2, cmdOk)
        c2 == c1 \o run.calls
        askDir == wd = ""
        workDir == IF askDir THEN TmuxGetPaneWorkDir(sid, dirOk) ELSE wd
        c3 == IF askDir THEN Append(c2, Call("GetPaneWorkDir", sid, "", dirOk, 0)) ELSE c2
        sessionID == ReadSessionID(workDir, file)
        cmd == BuildResumeCommand(tmpl, sessionID)
        stop(e, cs) == [done |-> TRUE, err |-> e, calls |-> cs, cmd |-> <<>>]
    IN IF ~has1 THEN stop(BackendErr, c1)
       ELSE IF ~Exists(sid) THEN stop(ErrCodexNotFound, c1)
       ELSE IF run.err = Nil /\ run.running THEN stop(Nil, c2)
       ELSE IF run.err # Nil THEN stop(run.err, c2)
       ELSE IF sessionID = <<>> THEN stop(ErrCodexMissingID(workDir), c3)
       ELSE IF cmd = <<>> THEN stop(ErrCodexNoResumeCmd, c3)
       ELSE [done |-> FALSE, err |-> Nil, calls |-> c3, cmd |-> cmd]

\* CodexResumeBegin asking tmux for the directory whatever the handle holds.
CodexResumeBeginAsksDir(sid, wd, file, tmpl, has1, has2, cmdOk, dirOk) ==
    LET c1 == <<Call("HasSession", sid, "", has1, 0)>>
        run == IsCodexRunning(sid, has2, cmdOk)
        c2 == c1 \o run.calls
        askDir == TRUE
        workDir == IF askDir THEN TmuxGetPaneWorkDir(sid, dirOk) ELSE wd
        c3 == IF askDir THEN Append(c2, Call("GetPaneWorkDir", sid, "", dirOk, 0)) ELSE c2
        sessionID == ReadSessionID(workDir, file)
        cmd == BuildResumeCommand(tmpl, sessionID)
        stop(e, cs) == [done |-> TRUE, err |-> e, calls |-> cs, cmd |-> <<>>]
    IN IF ~has1 THEN stop(BackendErr, c1)
       ELSE IF ~Exists(sid) THEN stop(ErrCodexNotFound, c1)
       ELSE IF run.err = Nil /\ run.running THEN stop(Nil, c2)
       ELSE IF sessionID = <<>> THEN stop(ErrCodexMissingID(workDir), c3)
       ELSE IF cmd = <<>> THEN stop(ErrCodexNoResumeCmd, c3)
       ELSE [done |-> FALSE, err |-> Nil, calls |-> c3, cmd |-> cmd]

\* CodexResumeBegin without the check that the resume command is not empty.
CodexResumeBeginAnyCommand(sid, wd, file, tmpl, has1, has2, cmdOk, dirOk) ==
    LET c1 == <<Call("HasSession", sid, "", has1, 0)>>
        run == IsCodexRunning(sid, has2, cmdOk)
        c2 == c1 \o run.calls
        askDir == wd = ""
        workDir == IF askDir THEN TmuxGetPaneWorkDir(sid, dirOk) ELSE wd
        c3 == IF askDir THEN Append(c2, Call("GetPaneWorkDir", sid, "", dirOk, 0)) ELSE c2
        sessionID == ReadSessionID(workDir, file)
        cmd == BuildResumeCommand(tmpl, sessionID)
        stop(e, cs) == [done |-> TRUE, err |-> e, calls |-> cs, cmd |-> <<>>]
    IN IF ~has1 THEN stop(BackendErr, c1)
       ELSE IF ~Exists(sid) THEN stop(ErrCodexNotFound, c1)
       ELSE IF run.err = Nil /\ run.running THEN stop(Nil, c2)
       ELSE IF sessionID = <<>> THEN stop(ErrCodexMissingID(workDir), c3)
       ELSE [done |-> FALSE, err |-> Nil, calls |-> c3, cmd |-> cmd]

\* Codex Resume up to its wait for the shell, given the results of the tmux
\* calls it makes (has1: HasSession; has2, cmdOk: isCodexRunning; dirOk:
\* GetPaneWorkDir): done with error err, or cmd is to be sent.
CodexResumeBegin(sid, wd, file, tmpl, has1, has2, cmdOk, dirOk) ==
    LET c1 == <<Call("HasSession", sid, "", has1, 0)>>
        run == IsCodexRunning(sid, has2, cmdOk)
        c2 == c1 \o run.calls
        askDir == wd = ""
        workDir == IF askDir THEN TmuxGetPaneWorkDir(sid, dirOk) ELSE wd
        c3 == IF askDir THEN Append(c2, Call("GetPaneWorkDir", sid, "", dirOk, 0)) ELSE c2
        sessionID == ReadSessionID(workDir, file)
        cmd == BuildResumeCommand(tmpl, sessionID)
        stop(e, cs) == [done |-> TRUE, err |-> e, calls |-> cs, cmd |-> <<>>]
    IN IF ~has1 THEN stop(BackendErr, c1)
       ELSE IF ~Exists(sid) THEN stop(ErrCodexNotFound, c1)
       ELSE IF run.err = Nil /\ run.running THEN stop(Nil, c2)
       ELSE IF sessionID = <<>> THEN stop(ErrCodexMissingID(workDir), c3)
       ELSE IF cmd = <<>> THEN stop(ErrCodexNoResumeCmd, c3)
       ELSE [done |-> FALSE, err |-> Nil, calls |-> c3, cmd |-> cmd]

Resume(rt, bound, sid, wd, file, tmpl) ==
    /\ Enter([Request("Resume", rt, bound) EXCEPT
                 !.sid = sid, !.wd = wd, !.file = file, !.tmpl = tmpl])
    /\ NoPoll
    /\ UNCHANGED sess
    /\ IF rt = "claude"
       THEN Return(ErrResult(ErrClaudeNotImplemented), <<>>, 0) /\ NoResume
       ELSE IF CodexResumeCheck(bound, sid) # Nil
       THEN Return(ErrResult(CodexResumeCheck(bound, sid)), <<>>, 0) /\ NoResume
       ELSE \E has1 \in BOOLEAN, has2 \in BOOLEAN, cmdOk \in BOOLEAN, dirOk \in BOOLEAN :
              LET b == CodexResumeBegin(sid, wd, file, tmpl, has1, has2, cmdOk, dirOk) IN
              IF b.done
              THEN Return(ErrResult(b.err), b.calls, 0) /\ NoResume
              ELSE /\ pc' = "resume_shell"
                   /\ res' = NoResult
                   /\ calls' = b.calls
                   /\ elapsed' = 0
                   /\ resumeCmd' = b.cmd


\* ResumeShellWaited sending the resume command whatever WaitForShellReady
\* returned.
ResumeShellWaitedSendsAnyway ==
    /\ pc = "resume_shell"
    /\ UNCHANGED regVars
    /\ LET ready == TmuxWaitForShellReady(op.sid)
           c1 == Append(calls, Call("WaitForShellReady", op.sid, "", ready, elapsed))
       IN \E ok \in TmuxOutcomes(op.sid) :
            LET c2 == Append(c1, Call("SendKeys", op.sid, resumeCmd, ok, elapsed)) IN
            IF ~ok
            THEN Return(ErrResult(BackendErr), c2, elapsed)
            ELSE /\ pc' = "resume_wait"
                 /\ calls' = c2
                 /\ UNCHANGED <<res, elapsed>>
    /\ UNCHANGED <<sess, op, ncap, capSeen, cancelled, afterCancel, deadline, latency, resumeCmd>>

\* WaitForShellReady has returned; on success the resume command is sent.
ResumeShellWaited ==
    /\ pc = "resume_shell"
    /\ UNCHANGED regVars
    /\ LET ready == TmuxWaitForShellReady(op.sid)
           c1 == Append(calls, Call("WaitForShellReady", op.sid, "", ready, elapsed))
       IN IF ~ready
          THEN Return(ErrResult(ErrShellNotReady), c1, elapsed)
          ELSE \E ok \in TmuxOutcomes(op.sid) :
                 LET c2 == Append(c1, Call("SendKeys", op.sid, resumeCmd, ok, elapsed)) IN
                 IF ~ok
                 THEN Return(ErrResult(BackendErr), c2, elapsed)
                 ELSE /\ pc' = "resume_wait"
                      /\ calls' = c2
                      /\ UNCHANGED <<res, elapsed>>
    /\ UNCHANGED <<sess, op, ncap, capSeen, cancelled, afterCancel, deadline, latency, resumeCmd>>

\* WaitForCommand has returned; its result is discarded.
ResumeWaited ==
    /\ pc = "resume_wait"
    /\ UNCHANGED regVars
    /\ pc' = "resume_sleep"
    /\ calls' = Append(calls, Call("WaitForCommand", op.sid, "",
                                   TmuxWaitForCommand(op.sid), elapsed))
    /\ UNCHANGED <<sess, op, ncap, capSeen, elapsed, cancelled, afterCancel,
                   deadline, latency, resumeCmd, res>>

\* time.Sleep has returned: Resume returns nil.
ResumeSlept ==
    /\ pc = "resume_sleep"
    /\ UNCHANGED regVars
    /\ Return(NoResult, calls, elapsed + CodexWarmup)
    /\ WaitMore(CodexWarmup)
    /\ UNCHANGED <<sess, op, ncap, capSeen, cancelled, deadline, latency, resumeCmd>>

\* ------------------------------------------------------------------------
\* ListSessions
\* ------------------------------------------------------------------------
ClaudeListSessionsCheck(bound) == IF ~bound THEN ErrRequiresTmux("claude") ELSE Nil

CodexListSessionsCheck(bound) == IF ~bound THEN ErrRequiresTmux("codex") ELSE Nil

ListSessionsCheck(rt, bound) ==
    IF rt = "claude" THEN ClaudeListSessionsCheck(bound)
    ELSE CodexListSessionsCheck(bound)

\* The second argument each adapter passes to FindSessionByWorkDir.
FindFlag(rt) == rt = "claude"


\* ListedSessions asking for every session whatever the filter says.
ListedSessionsUnfiltered(rt, fwd, blank) == TmuxListSessions(blank)

\* The session names the adapter asks tmux for.
ListedSessions(rt, fwd, blank) ==
    IF fwd # "" THEN TmuxFindSessionByWorkDir(fwd, FindFlag(rt))
    ELSE TmuxListSessions(blank)


\* Handles without the skip of empty session names.
HandlesKeepBlank(rt, sessions) ==
    [i \in 1..Len(sessions) |->
        [EmptyHandle EXCEPT !.Runtime = rt, !.SessionID = sessions[i]]]

\* The handles built from the session names.
Handles(rt, sessions) ==
    LET named == SelectSeq(sessions, LAMBDA s : s # "") IN
    [i \in 1..Len(named) |->
        [EmptyHandle EXCEPT !.Runtime = rt, !.SessionID = named[i]]]

ListSessions(rt, bound, frt, fwd) ==
    /\ Enter([Request("ListSessions", rt, bound) EXCEPT !.frt = frt, !.fwd = fwd])
    /\ NoPoll
    /\ NoResume
    /\ UNCHANGED sess
    /\ LET e == ListSessionsCheck(rt, bound)
           m == IF fwd # "" THEN "FindSessionByWorkDir" ELSE "ListSessions"
       IN IF e # Nil
          THEN Return(ErrResult(e), <<>>, 0)
          ELSE \E ok \in BOOLEAN, blank \in BOOLEAN :
                 Return(IF ok
                        THEN [NoResult EXCEPT
                                 !.handles = Handles(rt, ListedSessions(rt, fwd, blank))]
                        ELSE ErrResult(BackendErr),
                        <<Call(m, "", fwd, ok, 0)>>, 0)

\* ------------------------------------------------------------------------
\* The caller's context and the tmux sessions
\* ------------------------------------------------------------------------
\* The caller cancels the ctx it passed while the operation blocks.
CancelCtx ==
    /\ pc \in Blocking
    /\ UNCHANGED regVars
    /\ ~cancelled
    /\ cancelled' = TRUE
    /\ UNCHANGED <<sess, pc, op, calls, ncap, capSeen, elapsed, afterCancel,
                   deadline, latency, resumeCmd, res>>

\* The caller is done with the result of the operation that returned.
Discard ==
    /\ Done
    /\ UNCHANGED regVars
    /\ op' = NoOp
    /\ calls' = <<>>
    /\ ncap' = 0
    /\ capSeen' = {}
    /\ elapsed' = 0
    /\ cancelled' = FALSE
    /\ afterCancel' = 0
    /\ deadline' = 0
    /\ latency' = 0
    /\ resumeCmd' = <<>>
    /\ res' = NoResult
    /\ UNCHANGED <<sess, pc>>

\* The sessions change while the caller blocks or is between two operations.
TimePasses == (pc = "idle" /\ op = NoOp) \/ pc \in Blocking

opVars == <<pc, op, calls, ncap, capSeen, elapsed, cancelled, afterCancel,
            deadline, latency, resumeCmd, res, regVars>>

TmuxNewSession(s) ==
    /\ TimePasses
    /\ ~sess[s].exists
    /\ sess' = [sess EXCEPT ![s] = NewSession]
    /\ UNCHANGED opVars

TmuxSessionGone(s) ==
    /\ TimePasses
    /\ sess[s].exists
    /\ sess' = [sess EXCEPT ![s] = NoSession]
    /\ UNCHANGED opVars

TmuxForeground(s, c) ==
    /\ TimePasses
    /\ sess[s].exists
    /\ sess[s].cmd # c
    /\ sess' = [sess EXCEPT ![s].cmd = c]
    /\ UNCHANGED opVars

TmuxOutput(s, p) ==
    /\ TimePasses
    /\ sess[s].exists
    /\ sess[s].pane # p
    /\ sess' = [sess EXCEPT ![s].pane = p]
    /\ UNCHANGED opVars

\* ------------------------------------------------------------------------
\* Specification
\* ------------------------------------------------------------------------
Inputs == SessionIds \cup {""}

Next ==
    \/ \E rt \in Runtimes, bound \in BOOLEAN, sid \in Inputs, c \in Commands, wd \in WorkDirs :
         Start(rt, bound, sid, c, wd)
    \/ StartWaited
    \/ StartSlept
    \/ \E rt \in Runtimes, bound \in BOOLEAN, sid \in Inputs, wd \in WorkDirs,
          f \in Files, t \in Templates :
         Resume(rt, bound, sid, wd, f, t)
    \/ ResumeShellWaited
    \/ ResumeWaited
    \/ ResumeSlept
    \/ \E rt \in Runtimes, bound \in BOOLEAN, sid \in Inputs, t \in Texts, d \in Deliveries :
         SendMessage(rt, bound, sid, t, d)
    \/ \E rt \in Runtimes, bound \in BOOLEAN, sid \in Inputs : Stop(rt, bound, sid)
    \/ \E rt \in Runtimes, bound \in BOOLEAN, sid \in Inputs : IsReady(rt, bound, sid)
    \/ PollSlept
    \/ \E rt \in Runtimes, bound \in BOOLEAN, sid \in Inputs : DetectRunning(rt, bound, sid)
    \/ \E rt \in Runtimes, bound \in BOOLEAN, frt \in Runtimes \cup {""},
          fwd \in {"", "/w", "/w/", "/W"} :
         ListSessions(rt, bound, frt, fwd)
    \/ Discard
    \/ CancelCtx
    \/ \E s \in SessionIds : TmuxNewSession(s)
    \/ \E s \in SessionIds : TmuxSessionGone(s)
    \/ \E s \in SessionIds, c \in PaneCommands : TmuxForeground(s, c)
    \/ \E s \in SessionIds, p \in Panes : TmuxOutput(s, p)

Spec == Init /\ [][Next]_vars

\* ------------------------------------------------------------------------
\* Runtime registry: Register, Get, Names under registryMu (sync.RWMutex)
\* ------------------------------------------------------------------------

\* CanLock not waiting for the readers to release the lock.
CanLockNoReaders == rwWriter = NoProc

\* Lock returns when no goroutine holds the lock.
CanLock == rwWriter = NoProc /\ rwReaders = {}

\* RLock returns when no goroutine holds the write lock and none is blocked
\* in Lock.
CanRLock == rwWriter = NoProc /\ \A q \in Procs : rpc[q] # "reg_wait"


\* RegistryPut keeping the factory a name already has.
RegistryPutKeepFirst(m, name, factory) ==
    IF m[name] = NoFactory THEN [m EXCEPT ![name] = factory] ELSE m

\* registry[name] = factory
RegistryPut(m, name, factory) == [m EXCEPT ![name] = factory]

\* factory, ok := registry[name]
RegistryHas(m, name) == name \in DOMAIN m /\ m[name] # NoFactory

\* The factory of the latest Register of the name, NoFactory without one.
LastWritten(name) == IF name \in RegNames THEN lastWrite[name] ELSE NoFactory


\* GetMissing falling back to a default adapter instead of the error.
GetMissingDefault(name) == [NoRegResult EXCEPT !.adapter = ClaudeNew(FALSE)]

\* Get's result when the name is not in the map.
GetMissing(name) == [NoRegResult EXCEPT !.err = ErrNotRegistered(name)]

\* The factory calls Get makes for a name that is in the map.
GetInvokes(m, name, t) == <<[factory |-> m[name], backend |-> t]>>

RegCall(p, r, at) ==
    /\ rpc[p] = "idle"
    /\ rpc' = [rpc EXCEPT ![p] = at]
    /\ rreq' = [rreq EXCEPT ![p] = r]
    /\ UNCHANGED <<registry, lastWrite, replaced, rwWriter, rwReaders, rres, adapterVars>>

RegisterCall(p, name, factory) ==
    RegCall(p, [NoRegRequest EXCEPT !.op = "Register", !.name = name,
                                    !.factory = factory], "reg_wait")

RegisterLock(p) ==
    /\ rpc[p] = "reg_wait"
    /\ CanLock
    /\ rwWriter' = p
    /\ rpc' = [rpc EXCEPT ![p] = "reg_locked"]
    /\ UNCHANGED <<registry, lastWrite, replaced, rwReaders, rreq, rres, adapterVars>>

\* The map is written and the deferred Unlock runs.
RegisterWrite(p) ==
    /\ rpc[p] = "reg_locked"
    /\ registry' = RegistryPut(registry, rreq[p].name, rreq[p].factory)
    /\ lastWrite' = [lastWrite EXCEPT ![rreq[p].name] = rreq[p].factory]
    /\ replaced' = [replaced EXCEPT ![rreq[p].name] =
                        @ \cup ({lastWrite[rreq[p].name]} \ {NoFactory, rreq[p].factory})]
    /\ rwWriter' = NoProc
    /\ rpc' = [rpc EXCEPT ![p] = "reg_done"]
    /\ UNCHANGED <<rwReaders, rreq, rres, adapterVars>>

GetCall(p, name, t) ==
    RegCall(p, [NoRegRequest EXCEPT !.op = "Get", !.name = name, !.backend = t],
            "get_wait")

GetRLock(p) ==
    /\ rpc[p] = "get_wait"
    /\ CanRLock
    /\ rwReaders' = rwReaders \cup {p}
    /\ rpc' = [rpc EXCEPT ![p] = "get_locked"]
    /\ UNCHANGED <<registry, lastWrite, replaced, rwWriter, rreq, rres, adapterVars>>

\* GetLookup returning the not-registered error without the RUnlock.
GetLookupKeepsLock(p) ==
    /\ rpc[p] = "get_locked"
    /\ IF RegistryHas(registry, rreq[p].name)
       THEN /\ rres' = [rres EXCEPT ![p].invoked =
                            GetInvokes(registry, rreq[p].name, rreq[p].backend),
                                    ![p].seen = LastWritten(rreq[p].name)]
            /\ rpc' = [rpc EXCEPT ![p] = "get_factory"]
       ELSE /\ rres' = [rres EXCEPT ![p] =
                            [GetMissing(rreq[p].name) EXCEPT
                                !.seen = LastWritten(rreq[p].name)]]
            /\ rpc' = [rpc EXCEPT ![p] = "get_done"]
    /\ UNCHANGED <<registry, lastWrite, replaced, rwWriter, rwReaders, rreq, adapterVars>>

\* The lookup: the factory is called, or Get returns the error and the
\* deferred RUnlock runs.
GetLookup(p) ==
    /\ rpc[p] = "get_locked"
    /\ IF RegistryHas(registry, rreq[p].name)
       THEN /\ rres' = [rres EXCEPT ![p].invoked =
                            GetInvokes(registry, rreq[p].name, rreq[p].backend),
                                    ![p].seen = LastWritten(rreq[p].name)]
            /\ rpc' = [rpc EXCEPT ![p] = "get_factory"]
            /\ UNCHANGED rwReaders
       ELSE /\ rres' = [rres EXCEPT ![p] =
                            [GetMissing(rreq[p].name) EXCEPT
                                !.seen = LastWritten(rreq[p].name)]]
            /\ rpc' = [rpc EXCEPT ![p] = "get_done"]
            /\ rwReaders' = rwReaders \ {p}
    /\ UNCHANGED <<registry, lastWrite, replaced, rwWriter, rreq, adapterVars>>

\* The factory has returned: Get returns its adapter and the deferred
\* RUnlock runs.
GetFactoryReturned(p) ==
    /\ rpc[p] = "get_factory"
    /\ rres' = [rres EXCEPT ![p].adapter =
                    Build(rres[p].invoked[1].factory, rres[p].invoked[1].backend)]
    /\ rpc' = [rpc EXCEPT ![p] = "get_done"]
    /\ rwReaders' = rwReaders \ {p}
    /\ UNCHANGED <<registry, lastWrite, replaced, rwWriter, rreq, adapterVars>>

NamesCall(p) == RegCall(p, [NoRegRequest EXCEPT !.op = "Names"], "names_wait")

NamesRLock(p) ==
    /\ rpc[p] = "names_wait"
    /\ CanRLock
    /\ rwReaders' = rwReaders \cup {p}
    /\ rpc' = [rpc EXCEPT ![p] = "names_locked"]
    /\ UNCHANGED <<registry, lastWrite, replaced, rwWriter, rreq, rres, adapterVars>>

\* The orders in which a range over the map can yield the keys S.
Orders(S) ==
    {q \in [1..Cardinality(S) -> S] : \A i, j \in 1..Cardinality(S) : i # j => q[i] # q[j]}


\* RegistryKeys yielding every name of the table, registered or not.
RegistryKeysAll(m) == DOMAIN m

\* The keys of the map.
RegistryKeys(m) == {n \in DOMAIN m : m[n] # NoFactory}

\* The map is ranged over and the deferred RUnlock runs.
NamesRead(p) ==
    /\ rpc[p] = "names_locked"
    /\ \E out \in Orders(RegistryKeys(registry)) :
         rres' = [rres EXCEPT ![p].names = out]
    /\ rpc' = [rpc EXCEPT ![p] = "names_done"]
    /\ rwReaders' = rwReaders \ {p}
    /\ UNCHANGED <<registry, lastWrite, replaced, rwWriter, rreq, adapterVars>>

RegDone(p) == rpc[p] \in {"reg_done", "get_done", "names_done"}

\* The caller is done with the result of the registry call that returned.
RegDiscard(p) ==
    /\ RegDone(p)
    /\ rpc' = [rpc EXCEPT ![p] = "idle"]
    /\ rreq' = [rreq EXCEPT ![p] = NoRegRequest]
    /\ rres' = [rres EXCEPT ![p] = NoRegResult]
    /\ UNCHANGED <<registry, lastWrite, replaced, rwWriter, rwReaders, adapterVars>>

NextReg ==
    \/ \E p \in Procs, n \in RegNames, f \in Factories : RegisterCall(p, n, f)
    \/ \E p \in Procs : RegisterLock(p)
    \/ \E p \in Procs : RegisterWrite(p)
    \/ \E p \in Procs, n \in LookupNames, t \in BOOLEAN : GetCall(p, n, t)
    \/ \E p \in Procs : GetRLock(p)
    \/ \E p \in Procs : GetLookup(p)
    \/ \E p \in Procs : GetFactoryReturned(p)
    \/ \E p \in Procs : NamesCall(p)
    \/ \E p \in Procs : NamesRLock(p)
    \/ \E p \in Procs : NamesRead(p)
    \/ \E p \in Procs : RegDiscard(p)

SpecReg == Init /\ [][NextReg]_vars

\* The registry under fair scheduling: a goroutine that holds the lock goes
\* on to release it, every factory returns, and a goroutine blocked in Lock
\* gets the lock when it is free again and again (a sync.Mutex hands the
\* lock to a waiter that has waited long).
SpecRegFair ==
    /\ SpecReg
    /\ \A p \in Procs :
         /\ SF_vars(RegisterLock(p))
         /\ WF_vars(RegisterWrite(p))
         /\ WF_vars(GetLookup(p))
         /\ WF_vars(GetFactoryReturned(p))
         /\ WF_vars(NamesRead(p))


\* ------------------------------------------------------------------------
\* Start called by several goroutines at once
\* ------------------------------------------------------------------------
\* Here rpc, rreq and rres are the position, the StartOptions and the result
\* of each goroutine's Start, and calls is the log of tmux calls of all of
\* them.  The adapter holds no lock and no table of sessions: nothing in
\* Start looks at what another call is doing.

\* StartSends leaving out the injection when the log already has one for
\* the session.
StartSendsOnce(log, sid, command, ok) ==
    IF \E i \in 1..Len(log) : log[i].m = "SendKeys" /\ log[i].s = sid /\ log[i].ok
    THEN log
    ELSE log \o TmuxSendKeys(sid, command, ok, 0)

\* r.tmux.SendKeys(opts.SessionID, opts.Command)
StartSends(log, sid, command, ok) == log \o TmuxSendKeys(sid, command, ok, 0)

ParStart(p, rt, sid, command) ==
    /\ rpc[p] = "idle"
    /\ rreq' = [rreq EXCEPT ![p] =
                   [Request("Start", rt, TRUE) EXCEPT !.sid = sid, !.arg = command]]
    /\ LET e == StartCheck(rt, TRUE, sid, command) IN
       IF e # Nil
       THEN /\ rpc' = [rpc EXCEPT ![p] = "start_done"]
            /\ rres' = [rres EXCEPT ![p] = ErrResult(e)]
            /\ UNCHANGED calls
       ELSE \E ok \in TmuxOutcomes(sid) :
              /\ calls' = StartSends(calls, sid, command, ok)
              /\ rpc' = [rpc EXCEPT ![p] = IF ok THEN "start_wait" ELSE "start_done"]
              /\ rres' = [rres EXCEPT ![p] = IF ok THEN NoResult ELSE ErrResult(BackendErr)]
    /\ UNCHANGED <<sess, pc, op, ncap, capSeen, elapsed, cancelled, afterCancel,
                   deadline, latency, resumeCmd, res, registry, lastWrite, replaced,
                   rwWriter, rwReaders, files>>

ParStartWaited(p) ==
    /\ rpc[p] = "start_wait"
    /\ LET ok == TmuxWaitForCommand(rreq[p].sid) IN
       /\ calls' = Append(calls, Call("WaitForCommand", rreq[p].sid, "", ok, 0))
       /\ IF StartWaitErr(ok) # Nil
          THEN /\ rpc' = [rpc EXCEPT ![p] = "start_done"]
               /\ rres' = [rres EXCEPT ![p] = ErrResult(StartWaitErr(ok))]
          ELSE /\ rpc' = [rpc EXCEPT ![p] = "start_sleep"]
               /\ UNCHANGED rres
    /\ UNCHANGED <<sess, rreq, pc, op, ncap, capSeen, elapsed, cancelled, afterCancel,
                   deadline, latency, resumeCmd, res, registry, lastWrite, replaced,
                   rwWriter, rwReaders, files>>

ParStartSlept(p) ==
    /\ rpc[p] = "start_sleep"
    /\ rpc' = [rpc EXCEPT ![p] = "start_done"]
    /\ rres' = [rres EXCEPT ![p] =
                   [NoResult EXCEPT !.handle =
                       StartHandle(rreq[p].rt, rreq[p].sid, rreq[p].wd, Warmup(rreq[p].rt))]]
    /\ UNCHANGED <<sess, calls, rreq, pc, op, ncap, capSeen, elapsed, cancelled, afterCancel,
                   deadline, latency, resumeCmd, res, registry, lastWrite, replaced,
                   rwWriter, rwReaders, files>>

NextPar ==
    \/ \E p \in Procs, rt \in Runtimes, sid \in Inputs, c \in Commands :
         ParStart(p, rt, sid, c)
    \/ \E p \in Procs : ParStartWaited(p)
    \/ \E p \in Procs : ParStartSlept(p)
    \/ \E s \in SessionIds : TmuxNewSession(s)
    \/ \E s \in SessionIds : TmuxSessionGone(s)
    \/ \E s \in SessionIds, c \in PaneCommands : TmuxForeground(s, c)

SpecPar == Init /\ [][NextPar]_vars


\* ------------------------------------------------------------------------
\* A session's life as its callers see it
\* ------------------------------------------------------------------------
\* The adapter keeps no record of a session: what is left of a Start is the
\* handle in the hands of the caller.  Here rres[p] is the result goroutine
\* p kept from a Start that returned a handle, and rpc[p] tells how the
\* wait of that Start ended: "started" when WaitForCommand saw the agent,
\* "timed_out" when it gave up.  One goroutine owns each session: g1 owns
\* gt-a and g2 owns gt-b.
LifeKeep(p) ==
    /\ Done
    /\ op.name = "Start"
    /\ res.err = Nil
    /\ <<p, op.sid>> \in {<<"g1", "gt-a">>, <<"g2", "gt-b">>}
    /\ rpc' = [rpc EXCEPT ![p] =
                  IF \E i \in 1..Len(calls) : calls[i].m = "WaitForCommand" /\ ~calls[i].ok
                  THEN "timed_out" ELSE "started"]
    /\ rres' = [rres EXCEPT ![p] = res]
    /\ op' = NoOp
    /\ calls' = <<>>
    /\ ncap' = 0
    /\ capSeen' = {}
    /\ elapsed' = 0
    /\ cancelled' = FALSE
    /\ afterCancel' = 0
    /\ deadline' = 0
    /\ latency' = 0
    /\ resumeCmd' = <<>>
    /\ res' = NoResult
    /\ UNCHANGED <<sess, pc, rreq, registry, lastWrite, replaced, rwWriter, rwReaders, files>>

NextLife ==
    \/ \E sid \in Inputs, c \in Commands : Start("claude", TRUE, sid, c, "/w")
    \/ StartWaited
    \/ StartSlept
    \/ \E sid \in Inputs : IsReady("claude", TRUE, sid)
    \/ PollSlept
    \/ Discard
    \/ \E p \in Procs : LifeKeep(p)
    \/ \E s \in SessionIds : TmuxNewSession(s)
    \/ \E s \in SessionIds : TmuxSessionGone(s)
    \/ \E s \in SessionIds, c \in PaneCommands : TmuxForeground(s, c)
    \/ \E s \in SessionIds, p \in Panes : TmuxOutput(s, p)

SpecLife == Init /\ [][NextLife]_vars


\* The operations that can follow a Start whose handle the caller kept.
NextKept ==
    \/ \E rt \in Runtimes, sid \in SessionIds, wd \in WorkDirs :
         Start(rt, TRUE, sid, "agent --run", wd)
    \/ StartWaited
    \/ StartSlept
    \/ \E rt \in Runtimes, sid \in SessionIds : SendMessage(rt, TRUE, sid, "hello", "")
    \/ \E rt \in Runtimes, sid \in SessionIds : Stop(rt, TRUE, sid)
    \/ \E rt \in Runtimes, sid \in SessionIds : IsReady(rt, TRUE, sid)
    \/ PollSlept
    \/ \E rt \in Runtimes, sid \in SessionIds : DetectRunning(rt, TRUE, sid)
    \/ Discard
    \/ \E p \in Procs : LifeKeep(p)
    \/ \E s \in SessionIds : TmuxNewSession(s)
    \/ \E s \in SessionIds : TmuxSessionGone(s)
    \/ \E s \in SessionIds, c \in PaneCommands : TmuxForeground(s, c)

SpecKept == Init /\ [][NextKept]_vars


\* ------------------------------------------------------------------------
\* Loading and saving the runtime registry configuration
\* ------------------------------------------------------------------------
\* Here rpc, rreq and rres are the position, the arguments and the results
\* of the goroutine that calls a configuration function; one call is made
\* at a time.
CfgCall(p, r) ==
    /\ \A q \in Procs : rpc[q] = "idle"
    /\ rpc' = [rpc EXCEPT ![p] = "cfg_done"]
    /\ rreq' = [rreq EXCEPT ![p] = r]
    /\ UNCHANGED <<sess, pc, op, calls, ncap, capSeen, elapsed, cancelled, afterCancel,
                   deadline, latency, resumeCmd, res, registry, lastWrite, replaced,
                   rwWriter, rwReaders>>

LoadRuntimeRegistryConfig(p, path) ==
    /\ CfgCall(p, [NoCfgRequest EXCEPT !.op = "Load", !.path = path])
    /\ rres' = [rres EXCEPT ![p] = LoadResult(path, files[path])]
    /\ UNCHANGED files

\* MkdirAll fails, or WriteFile fails before or after it has truncated the
\* file, or the encoded configuration is written.
SaveRuntimeRegistryConfig(p, path, config) ==
    /\ CfgCall(p, [NoCfgRequest EXCEPT !.op = "Save", !.path = path, !.config = config])
    /\ \E dirOk \in BOOLEAN, writeOk \in BOOLEAN, truncated \in BOOLEAN :
         IF ~dirOk
         THEN /\ rres' = [rres EXCEPT ![p] =
                             [NoCfgResult EXCEPT !.err = CfgErr(<<"creating directory">>, {"os"})]]
              /\ UNCHANGED files
         ELSE IF ~writeOk
         THEN /\ rres' = [rres EXCEPT ![p] =
                             [NoCfgResult EXCEPT
                                 !.err = CfgErr(<<"writing runtime registry">>, {"os"})]]
              /\ files' = IF truncated THEN [files EXCEPT ![path] = CfgGarbage] ELSE files
         ELSE /\ rres' = [rres EXCEPT ![p] = NoCfgResult]
              /\ files' = [files EXCEPT ![path] = MarshalIndent(config)]

\* The caller is done with what the configuration function returned.
CfgReturn(p) ==
    /\ rpc[p] = "cfg_done"
    /\ rpc' = [rpc EXCEPT ![p] = "idle"]
    /\ rreq' = [rreq EXCEPT ![p] = NoRegRequest]
    /\ rres' = [rres EXCEPT ![p] = NoRegResult]
    /\ UNCHANGED <<registry, lastWrite, replaced, rwWriter, rwReaders, adapterVars>>

\* Someone else writes or removes the file between two calls.
FileChanged(path, file) ==
    /\ files[path] # file
    /\ files' = [files EXCEPT ![path] = file]
    /\ UNCHANGED <<sess, pc, op, calls, ncap, capSeen, elapsed, cancelled, afterCancel,
                   deadline, latency, resumeCmd, res, registry, lastWrite, replaced,
                   rwWriter, rwReaders, rpc, rreq, rres>>

NextCfg ==
    \/ \E p \in Procs, path \in CfgPaths : LoadRuntimeRegistryConfig(p, path)
    \/ \E p \in Procs, path \in CfgPaths, config \in Configs :
         SaveRuntimeRegistryConfig(p, path, config)
    \/ \E p \in Procs : CfgReturn(p)
    \/ \E path \in CfgPaths, file \in Documents \cup {CfgAbsent} : FileChanged(path, file)

SpecCfg == Init /\ [][NextCfg]_vars

\* ------------------------------------------------------------------------
\* Properties
\* ------------------------------------------------------------------------
\* C1: Start with an empty SessionID, or with a SessionID and an empty launch
\* Command, returns an error and the empty handle and issues no tmux call;
\* with tmux bound the error is the one naming the missing field.
C1_StartRejectsEmpty ==
    (Done /\ op.name = "Start" /\ (op.sid = "" \/ op.arg = "")) =>
        /\ res.err # Nil
        /\ res.handle = EmptyHandle
        /\ calls = <<>>
        /\ ncap = 0
        /\ op.bound =>
             res.err = IF op.sid = "" THEN ErrRequiresSessionID(op.rt)
                       ELSE ErrRequiresCommand(op.rt)

C1_Witness ==
    /\ Done
    /\ op.name = "Start"
    /\ op.rt = "codex"
    /\ op.bound
    /\ Exists(op.sid)
    /\ op.arg = ""
    /\ res.err = ErrRequiresCommand("codex")
    /\ calls = <<>>

\* C2: with no tmux bound, the step that calls any of the seven operations
\* is also the step in which it returns: it returns an error and no value,
\* issues no tmux call, waits for nothing and leaves the sessions as they are.
C2_UnboundNoSideEffect ==
    [][(op = NoOp /\ op' # NoOp /\ ~op'.bound) =>
          /\ pc' = "idle"
          /\ res'.err # Nil
          /\ res'.handle = EmptyHandle /\ ~res'.ok /\ res'.handles = <<>>
          /\ calls' = <<>>
          /\ ncap' = 0
          /\ elapsed' = 0
          /\ sess' = sess]_vars

C2_Witness ==
    /\ Done
    /\ op.name = "Stop"
    /\ op.rt = "codex"
    /\ ~op.bound
    /\ Exists(op.sid)
    /\ res.err = ErrRequiresTmux("codex")
    /\ calls = <<>>

\* C3: SendMessage with a delivery the adapter does not support (Claude:
\* stdin, rpc; Codex: rpc) returns an error, which with tmux bound is the
\* adapter's unsupported-delivery error, and injects no keystrokes.
ClaimedUnsupported(rt) ==
    IF rt = "claude" THEN {DeliveryStdin, DeliveryRPC} ELSE {DeliveryRPC}

C3_UnsupportedDelivery ==
    (Done /\ op.name = "SendMessage" /\ op.dlv \in ClaimedUnsupported(op.rt)) =>
        /\ res.err # Nil
        /\ calls = <<>>
        /\ op.bound =>
             res.err = IF op.rt = "claude" THEN ErrClaudeDelivery ELSE ErrCodexDelivery

C3_Witness ==
    /\ Done
    /\ op.name = "SendMessage"
    /\ op.rt = "claude"
    /\ op.bound
    /\ op.dlv = DeliveryStdin
    /\ Exists(op.sid)
    /\ res.err = ErrClaudeDelivery
    /\ calls = <<>>

\* C4: every successful SendMessage makes exactly two tmux calls: the
\* literal text, then, at least the settle delay later, Enter on its own.
C4_TwoStepDelivery ==
    (Done /\ op.name = "SendMessage" /\ res.err = Nil) =>
        /\ Len(calls) = 2
        /\ calls[1].m = "SendLiteral" /\ calls[1].a = op.arg
        /\ calls[2].m = "SendEnter"
        /\ calls[2].at - calls[1].at >= NudgeSettle

\* C5: a Start whose launch command was injected returns a handle and no
\* error, whatever WaitForCommand returned.
C5_StartReturnsHandle ==
    (Done /\ op.name = "Start" /\ calls # <<>> /\ calls[1].ok) =>
        /\ res.err = Nil
        /\ res.handle.Runtime = op.rt
        /\ res.handle.SessionID = op.sid
        /\ Len(calls) = 2
        /\ calls[2].m = "WaitForCommand"

C5_Witness ==
    /\ Done
    /\ op.name = "Start"
    /\ Len(calls) = 2
    /\ calls[1].m = "SendKeys" /\ calls[1].ok
    /\ calls[2].m = "WaitForCommand" /\ ~calls[2].ok
    /\ res.err = Nil
    /\ res.handle.SessionID = op.sid

\* C6: a Claude IsReady that returns false returns it without an error and
\* exactly when the timeout has elapsed.
C6_ExactTimeout ==
    (Done /\ op.name = "IsReady" /\ op.rt = "claude" /\ op.bound /\ ~res.ok) =>
        /\ res.err = Nil
        /\ elapsed = ReadyTimeout

\* C7: a Claude IsReady called while the pane reads "building...", "> ", and
\* whose capture succeeds, returns true in the step of the call: after one
\* capture, without a poll sleep, having spent only the capture's own time.
C7_ReadyAtOnce ==
    [][(/\ op = NoOp
        /\ op'.name = "IsReady" /\ op'.rt = "claude" /\ op'.bound
        /\ Exists(op'.sid)
        /\ sess[op'.sid].pane = PanePrompt
        /\ capSeen' = {TRUE}) =>
          /\ pc' = "idle"
          /\ res'.ok
          /\ res'.err = Nil
          /\ ncap' = 1
          /\ elapsed' = latency'
          /\ elapsed' <= MaxCaptureCost]_vars

C7_Witness ==
    /\ Done
    /\ op.name = "IsReady"
    /\ op.rt = "claude"
    /\ op.bound
    /\ Exists(op.sid)
    /\ sess[op.sid].pane = PanePrompt
    /\ res.ok
    /\ res.err = Nil
    /\ ncap = 1
    /\ elapsed = MaxCaptureCost

\* C8: a Start, Resume or IsReady whose ctx was cancelled while it waited
\* returns without sleeping on.
C8_CancelEndsWait ==
    (Done /\ op.name \in {"Start", "Resume", "IsReady"} /\ cancelled) =>
        afterCancel < PollInterval

\* C9: a Get that finds the name not registered returns the not-registered
\* error and a nil adapter and calls no factory; a Get that finds it
\* registered calls the registered factory once, with the backend given, and
\* returns what the factory built.
C9_GetResult ==
    \A p \in Procs :
        rpc[p] = "get_done" =>
            IF rres[p].seen = NoFactory
            THEN /\ rres[p].err = ErrNotRegistered(rreq[p].name)
                 /\ rres[p].adapter = NilAdapter
                 /\ rres[p].invoked = <<>>
            ELSE /\ rres[p].err = Nil
                 /\ rres[p].invoked =
                        <<[factory |-> rres[p].seen, backend |-> rreq[p].backend]>>
                 /\ rres[p].adapter = Build(rres[p].seen, rreq[p].backend)

C9_Witness ==
    \E p \in Procs :
        /\ rpc[p] = "get_done"
        /\ rreq[p].name = "codex"
        /\ registry["codex"] = NoFactory
        /\ registry["claude"] # NoFactory
        /\ rres[p].err = ErrNotRegistered("codex")
        /\ rres[p].invoked = <<>>

\* C10: the map holds, for each name, the factory of the latest Register of
\* that name; a Get calls that factory, never one a later Register has
\* replaced; and Register returns no error.
C10_LastWriteWins ==
    /\ \A n \in RegNames : registry[n] = lastWrite[n]
    /\ \A p \in Procs :
         /\ rpc[p] = "get_factory" =>
              /\ Len(rres[p].invoked) = 1
              /\ rres[p].invoked[1].factory = lastWrite[rreq[p].name]
         /\ (rpc[p] = "get_done" /\ rres[p].err = Nil) =>
              rres[p].adapter = Build(rres[p].seen, rreq[p].backend)
         /\ rpc[p] = "reg_done" => rres[p].err = Nil

C10_Witness ==
    \E p \in Procs :
        /\ rpc[p] = "get_done"
        /\ rreq[p].name = "claude"
        /\ "claude.New" \in replaced["claude"]
        /\ rres[p].seen = "codex.New"
        /\ rres[p].adapter = CodexNew(rreq[p].backend)

\* C11: the list a Names call collects holds exactly the names registered
\* up to then: each of them once, however often it was registered, and no
\* name that was never registered.
C11_NamesExact ==
    [][\A p \in Procs :
          (rpc[p] = "names_locked" /\ rpc'[p] = "names_done") =>
              LET out == rres'[p].names IN
              /\ {out[i] : i \in 1..Len(out)} =
                     {n \in RegNames : lastWrite[n] # NoFactory}
              /\ \A i, j \in 1..Len(out) : i # j => out[i] # out[j]]_vars

C11_Witness ==
    \E p \in Procs :
        /\ rpc[p] = "names_done"
        /\ rres[p].names = <<"claude">>
        /\ replaced["claude"] # {}
        /\ lastWrite["codex"] = NoFactory

\* C12: a goroutine writing the map holds the lock alone, the goroutines
\* reading it are those that hold the read lock, and the map does not change
\* while any goroutine reads it.
Reading == {p \in Procs : rpc[p] \in {"get_locked", "get_factory", "names_locked"}}

Writing == {p \in Procs : rpc[p] = "reg_locked"}

C12_LockExclusion ==
    /\ [](/\ Writing = (IF rwWriter = NoProc THEN {} ELSE {rwWriter})
          /\ Reading = rwReaders
          /\ Writing # {} => Reading = {})
    /\ [][Reading # {} => registry' = registry]_vars

C12_Witness ==
    /\ rwReaders = Procs
    /\ \E p \in Procs : rpc[p] = "get_factory"
    /\ \E p \in Procs : rpc[p] = "names_locked"
    /\ registry["claude"] # NoFactory

C14_ListAll ==
    (Done /\ op.name = "ListSessions" /\ op.bound /\ op.fwd = "" /\ op.frt = ""
          /\ res.err = Nil) =>
        LET known == InOrder({s \in SessionIds : Exists(s)}) IN
        /\ Len(res.handles) = Len(known)
        /\ \A i \in 1..Len(known) :
             res.handles[i] =
                 [Runtime |-> op.rt, SessionID |-> known[i], WorkDir |-> "",
                  PID |-> 0, StartedAt |-> Unset, ReadyAt |-> Unset]

C14_Witness ==
    /\ Done
    /\ op.name = "ListSessions"
    /\ op.rt = "claude"
    /\ op.bound
    /\ op.fwd = "" /\ op.frt = ""
    /\ res.err = Nil
    /\ Len(res.handles) = 2
    /\ res.handles[1].SessionID = "gt-a"
    /\ res.handles[2].SessionID = "gt-b"

\* C15: every handle a ListSessions with a runtime name in the filter
\* returns has that name as its Runtime.
C15_RuntimeFilter ==
    (Done /\ op.name = "ListSessions" /\ op.bound /\ op.frt # "" /\ res.err = Nil) =>
        \A i \in 1..Len(res.handles) : res.handles[i].Runtime = op.frt

\* The errors of the adapters by the kind the error taxonomy gives them.
ConfigurationErrors ==
    {ErrRequiresTmux(rt) : rt \in Runtimes} \cup
    {ErrRequiresSessionID(rt) : rt \in Runtimes} \cup
    {ErrRequiresCommand(rt) : rt \in Runtimes} \cup {ErrCodexNoResumeCmd}

\* The missing-session-id error for each directory a Resume can look in.
MissingIDErrors ==
    {ErrCodexMissingID(d) : d \in WorkDirs \cup {PaneWorkDir(x) : x \in SessionIds}}

NotFoundErrors == {ErrCodexNotFound} \cup MissingIDErrors

\* The operation sent no keys and did not get as far as waiting for the shell.
NothingSent ==
    \A i \in 1..Len(calls) :
        calls[i].m \notin {"SendKeys", "SendLiteral", "SendEnter", "WaitForShellReady",
                           "WaitForCommand"}

\* The session_id file is missing, or its first line is blank once trimmed.
NoPersistedID(file) ==
    \/ ~file.present
    \/ file.lines = <<>>
    \/ \A i \in 1..Len(file.lines[1]) : file.lines[1][i] = " "

\* C16: a Resume of an existing session that does not run the agent, with
\* no session id persisted under the working directory, returns an error
\* and sends nothing; from the Codex adapter, once HasSession has answered,
\* the error is the missing-session-id one.
C16_ResumeWithoutID ==
    (/\ Done /\ op.name = "Resume" /\ op.bound
     /\ Exists(op.sid)
     /\ sess[op.sid].cmd \notin CodexCommands
     /\ NoPersistedID(op.file)) =>
        /\ res.err # Nil
        /\ NothingSent
        /\ (op.rt = "codex" /\ calls[1].ok) =>
             /\ res.err \in MissingIDErrors
             /\ res.err \in NotFoundErrors

C16_Witness ==
    /\ Done
    /\ op.name = "Resume"
    /\ op.rt = "codex"
    /\ op.bound
    /\ Exists(op.sid)
    /\ sess[op.sid].cmd = "bash"
    /\ op.wd = "/w"
    /\ op.file = [present |-> TRUE, lines |-> << <<" ">>, <<"s">> >>]
    /\ op.tmpl # <<>>
    /\ res.err = ErrCodexMissingID("/w")
    /\ NothingSent

\* C17: a Resume with an empty SessionID returns a configuration error and
\* makes no tmux call; a Resume of a session tmux does not have returns a
\* not-found error and sends nothing.
C17_ResumeRejects ==
    (Done /\ op.name = "Resume" /\ op.bound) =>
        /\ op.sid = "" =>
             /\ res.err \in ConfigurationErrors
             /\ calls = <<>>
        /\ (/\ op.sid # ""
            /\ ~Exists(op.sid)
            /\ calls = <<>> \/ (Len(calls) = 1 /\ calls[1].ok)) =>
             /\ res.err \in NotFoundErrors
             /\ NothingSent

\* C17 for the Codex adapter alone.
C17_CodexResumeRejects == op.rt = "codex" => C17_ResumeRejects

\* C18: a Codex Resume that reads a session id but builds an empty resume
\* command returns the command-unavailable error, a configuration error, and
\* sends nothing.
C18_ResumeWithoutCommand ==
    (/\ Done /\ op.name = "Resume" /\ op.rt = "codex" /\ op.bound
     /\ Exists(op.sid)
     /\ sess[op.sid].cmd \notin CodexCommands
     /\ ~NoPersistedID(op.file)
     /\ op.tmpl = <<>>
     /\ calls[1].ok
     /\ op.wd = "" => calls[Len(calls)].ok) =>
        /\ res.err = ErrCodexNoResumeCmd
        /\ res.err \in ConfigurationErrors
        /\ NothingSent

C18_Witness ==
    /\ Done
    /\ op.name = "Resume"
    /\ op.rt = "codex"
    /\ op.bound
    /\ Exists(op.sid)
    /\ sess[op.sid].cmd = "bash"
    /\ op.wd = ""
    /\ op.file = [present |-> TRUE, lines |-> << <<" ", "s", " ">>, <<"x">> >>]
    /\ op.tmpl = <<>>
    /\ Len(calls) = 4
    /\ calls[4].m = "GetPaneWorkDir" /\ calls[4].ok
    /\ res.err = ErrCodexNoResumeCmd

\* C19: a Stop on a bound adapter, whatever the state of the session, makes
\* one tmux call, the kill of the handle's session, and returns that call's
\* result: its error when the kill failed, no error when it succeeded.
C19_StopKillsOnce ==
    (Done /\ op.name = "Stop" /\ op.bound) =>
        /\ Len(calls) = 1
        /\ calls[1].m = "KillSession"
        /\ calls[1].s = op.sid
        /\ res.err = (IF calls[1].ok THEN Nil ELSE BackendErr)
        /\ calls[1].ok => ~Exists(op.sid)

C19_Witness ==
    /\ Done
    /\ op.name = "Stop"
    /\ op.rt = "claude"
    /\ op.bound
    /\ op.sid = "gt-a"
    /\ ~Exists("gt-a")
    /\ ~calls[1].ok
    /\ res.err = BackendErr

C21_CodexDetectRunning ==
    (Done /\ op.name = "DetectRunning" /\ op.rt = "codex" /\ op.bound) =>
        /\ calls # <<>> /\ calls[1].m = "HasSession" /\ calls[1].s = op.sid
        /\ IF ~calls[1].ok
           THEN Len(calls) = 1 /\ ~res.ok /\ res.err = BackendErr
           ELSE IF ~Exists(op.sid)
           THEN Len(calls) = 1 /\ ~res.ok /\ res.err = Nil
           ELSE /\ Len(calls) = 2
                /\ calls[2].m = "GetPaneCommand"
                /\ IF ~calls[2].ok
                   THEN ~res.ok /\ res.err = BackendErr
                   ELSE /\ res.err = Nil
                        /\ res.ok <=> sess[op.sid].cmd \in {"codex", "node"}

C21_Witness ==
    /\ Done
    /\ op.name = "DetectRunning"
    /\ op.rt = "codex"
    /\ op.bound
    /\ Exists(op.sid)
    /\ sess[op.sid].cmd = "bash"
    /\ Len(calls) = 2 /\ calls[2].ok
    /\ ~res.ok
    /\ res.err = Nil

\* C24: a Claude Start that injected the launch command has captured the
\* pane at least once, to look for the prompt, by the time it returns.
C24_StartPollsPrompt ==
    (Done /\ op.name = "Start" /\ op.rt = "claude" /\ res.err = Nil) => ncap >= 1

\* A trimmed line begins with ">".
MarkerAtStart(line) ==
    LET t == TrimSpace(line) IN t # <<>> /\ t[1] = ">"

\* A trimmed line is ">" or begins with "> ".
MarkerThenSpace(line) ==
    LET t == TrimSpace(line) IN
    t = <<">">> \/ (Len(t) >= 2 /\ t[1] = ">" /\ t[2] = " ")

\* The last ten lines of the pane of session s.
LastTen(s) ==
    LET p == sess[s].pane IN
    IF Len(p) <= 10 THEN p ELSE [i \in 1..10 |-> p[Len(p) - 10 + i]]

\* A step of a Claude IsReady in which the pane is captured.
Captures ==
    /\ op'.name = "IsReady" /\ op'.rt = "claude" /\ op'.bound
    /\ ncap' = ncap + 1

\* C25 as the claim words it: a capture of a Claude IsReady ends it with
\* true exactly when the capture succeeds and one of the last ten pane lines,
\* trimmed, begins with ">".
C25_MarkerPrefixMatches ==
    [][Captures =>
          /\ (pc' = "idle" /\ res'.ok) =>
                /\ Exists(op'.sid)
                /\ \E i \in 1..Len(LastTen(op'.sid)) : MarkerAtStart(LastTen(op'.sid)[i])
          /\ (pc' = "poll_sleep" /\ capSeen' = {TRUE}) =>
                \A i \in 1..Len(LastTen(op'.sid)) : ~MarkerAtStart(LastTen(op'.sid)[i])]_vars

\* C25 (amended): a capture of a Claude IsReady ends it with true exactly
\* when the capture succeeds and one of the last ten pane lines, trimmed, is
\* ">" or begins with "> "; a trimmed line that begins with ">" followed by
\* anything but a space does not match, nor does a line with ">" elsewhere.
C25_PromptMatches ==
    [][Captures =>
          /\ (pc' = "idle" /\ res'.ok) =>
                /\ Exists(op'.sid)
                /\ \E i \in 1..Len(LastTen(op'.sid)) : MarkerThenSpace(LastTen(op'.sid)[i])
          /\ (pc' = "poll_sleep" /\ capSeen' = {TRUE}) =>
                \A i \in 1..Len(LastTen(op'.sid)) : ~MarkerThenSpace(LastTen(op'.sid)[i])
          /\ pc' \in {"idle", "poll_sleep"}]_vars

C25_Witness ==
    /\ Done
    /\ op.name = "IsReady"
    /\ op.rt = "claude"
    /\ op.bound
    /\ Exists(op.sid)
    /\ sess[op.sid].pane = PaneNearMiss
    /\ capSeen = {TRUE}
    /\ ncap >= 2
    /\ ~res.ok

\* The time a Claude IsReady has taken once its latest capture is made: the
\* captures and the sleeps between them, none after the latest.
TimeOfCaptures == ncap * latency + (ncap - 1) * PollInterval

\* C26: a Claude IsReady that returns true returns with the capture that
\* showed the prompt: it has slept only between its captures, never after
\* the last one, and that capture succeeded.
C26_ReturnsOnMatch ==
    (Done /\ op.name = "IsReady" /\ op.rt = "claude" /\ op.bound /\ res.ok) =>
        /\ ncap >= 1
        /\ TRUE \in capSeen
        /\ elapsed = TimeOfCaptures
        /\ Exists(op.sid)
        /\ \E i \in 1..Len(LastTen(op.sid)) : MarkerThenSpace(LastTen(op.sid)[i])

C26_Witness ==
    /\ Done
    /\ op.name = "IsReady"
    /\ op.rt = "claude"
    /\ op.bound
    /\ res.ok
    /\ ncap = 3
    /\ FALSE \in capSeen
    /\ elapsed = 3 * latency + 2 * PollInterval

\* C27: a Claude IsReady on a bound adapter never returns an error; a
\* failed capture is followed by the same sleep as a capture without the
\* prompt; and when every capture failed it returns false, once the timeout
\* has passed, as it does when the prompt never showed.
C27_CaptureFailureHidden ==
    (op.name = "IsReady" /\ op.rt = "claude" /\ op.bound) =>
        /\ pc = "poll_sleep" => elapsed = TimeOfCaptures
        /\ Done =>
             /\ res.err = Nil
             /\ capSeen = {FALSE} => ~res.ok
             /\ ~res.ok =>
                  /\ elapsed = ncap * (latency + PollInterval)
                  /\ elapsed >= ReadyTimeout
                  /\ elapsed - (latency + PollInterval) < ReadyTimeout

C27_Witness ==
    /\ Done
    /\ op.name = "IsReady"
    /\ op.rt = "claude"
    /\ op.bound
    /\ op.sid \in SessionIds
    /\ ~Exists(op.sid)
    /\ capSeen = {FALSE}
    /\ ncap >= 2
    /\ ~res.ok
    /\ res.err = Nil

\* C28: on a session that tmux no longer has, a Codex DetectRunning or
\* IsReady whose existence check is answered returns false and no error
\* after that one call, without reading the foreground command; and a Stop
\* of such a session makes the kill call and returns its result.
C28_StaleHandle ==
    (Done /\ op.rt = "codex" /\ op.bound /\ op.sid \in SessionIds /\ ~Exists(op.sid)) =>
        /\ (op.name \in {"DetectRunning", "IsReady"} /\ calls[1].ok) =>
             /\ ~res.ok
             /\ res.err = Nil
             /\ Len(calls) = 1
             /\ calls[1].m = "HasSession"
        /\ op.name = "Stop" =>
             /\ Len(calls) = 1
             /\ calls[1].m = "KillSession"
             /\ res.err = (IF calls[1].ok THEN Nil ELSE BackendErr)

C28_Witness ==
    /\ Done
    /\ op.name = "IsReady"
    /\ op.rt = "codex"
    /\ op.bound
    /\ op.sid = "gt-b"
    /\ ~Exists("gt-b")
    /\ Exists("gt-a")
    /\ calls = <<Call("HasSession", "gt-b", "", TRUE, 0)>>
    /\ ~res.ok
    /\ res.err = Nil

\* C29: a Codex Resume called on an existing session whose foreground
\* command is "codex" or "node", and whose tmux calls are answered, returns
\* nil in the step of the call, after the existence check and the command
\* check alone: whatever the session_id file holds, it asks for no working
\* directory, builds no resume command, waits for no shell and sends no keys.
C29_ResumeRunningNoOp ==
    [][(/\ op = NoOp
        /\ op'.name = "Resume" /\ op'.rt = "codex" /\ op'.bound
        /\ Exists(op'.sid)
        /\ sess[op'.sid].cmd \in {"codex", "node"}
        /\ AllOk(calls')) =>
          /\ pc' = "idle"
          /\ res'.err = Nil
          /\ [i \in 1..Len(calls') |-> calls'[i].m] =
                 <<"HasSession", "HasSession", "GetPaneCommand">>
          /\ resumeCmd' = <<>>
          /\ elapsed' = 0]_vars

C29_Witness ==
    /\ Done
    /\ op.name = "Resume"
    /\ op.rt = "codex"
    /\ op.bound
    /\ Exists(op.sid)
    /\ sess[op.sid].cmd = "node"
    /\ op.file = NoFile
    /\ op.tmpl = <<>>
    /\ Len(calls) = 3
    /\ AllOk(calls)
    /\ res.err = Nil

\* The names of the tmux calls made, in order.
CallNames == [i \in 1..Len(calls) |-> calls[i].m]

\* The calls of a Codex Resume up to and including the wait for the shell.
ResumeChecks ==
    {<<"HasSession", "HasSession", "WaitForShellReady">>,
     <<"HasSession", "HasSession", "GetPaneCommand", "WaitForShellReady">>,
     <<"HasSession", "HasSession", "GetPaneWorkDir", "WaitForShellReady">>,
     <<"HasSession", "HasSession", "GetPaneCommand", "GetPaneWorkDir",
       "WaitForShellReady">>}

\* C30: a Codex Resume that gets as far as the shell has made its calls in
\* the order existence check, command check, wait for the shell, injection,
\* wait for the command, and sleeps the warmup last.  A failed wait for the
\* shell ends it with that error and nothing injected; a failed injection
\* ends it with that error and no warmup; otherwise it returns nil after
\* the warmup.
C30_ResumeOrder ==
    (op.name = "Resume" /\ op.rt = "codex" /\ calls # <<>>
        /\ \E i \in 1..Len(calls) : calls[i].m = "WaitForShellReady") =>
        LET n == CHOOSE i \in 1..Len(calls) : calls[i].m = "WaitForShellReady" IN
        /\ SubSeq(CallNames, 1, n) \in ResumeChecks
        /\ SubSeq(CallNames, n + 1, Len(calls)) \in
               {<<>>, <<"SendKeys">>, <<"SendKeys", "WaitForCommand">>}
        /\ ~calls[n].ok =>
             Len(calls) = n /\ Done /\ res.err = ErrShellNotReady /\ elapsed = 0
        /\ (Len(calls) = n + 1 /\ ~calls[n + 1].ok) =>
             Done /\ res.err = BackendErr /\ elapsed = 0
        /\ (Len(calls) = n + 1 /\ calls[n + 1].ok) => pc = "resume_wait"
        /\ Len(calls) = n + 2 =>
             /\ calls[n + 1].ok
             /\ calls[n + 1].a = resumeCmd
             /\ pc \in {"resume_sleep", "idle"}
             /\ pc = "idle" => res.err = Nil /\ elapsed = CodexWarmup

C30_Witness ==
    /\ Done
    /\ op.name = "Resume"
    /\ op.rt = "codex"
    /\ CallNames = <<"HasSession", "HasSession", "GetPaneCommand", "GetPaneWorkDir",
                     "WaitForShellReady", "SendKeys", "WaitForCommand">>
    /\ res.err = Nil
    /\ elapsed = CodexWarmup

\* The goroutines whose Start has injected the launch command into session s.
Launched(s) ==
    {p \in Procs :
        /\ rpc[p] \in {"start_wait", "start_sleep", "start_done"}
        /\ rreq[p].sid = s
        /\ rres[p].err = Nil}

\* The successful injections into session s that the log holds.
Injections(s) ==
    {i \in 1..Len(calls) : calls[i].m = "SendKeys" /\ calls[i].s = s /\ calls[i].ok}

\* C23: every Start that passed its checks has made an injection of its
\* own, whatever other Start calls on the same session were doing: the log
\* holds one successful injection into a session for each Start launched on
\* it, so two for two concurrent calls, one for each call made on its own,
\* and every finished Start that injected returns a handle for its session.
C23_StartNotSerialized ==
    /\ \A s \in SessionIds : Cardinality(Injections(s)) = Cardinality(Launched(s))
    /\ \A p \in Procs :
         (rpc[p] = "start_done" /\ rres[p].err = Nil) =>
             /\ rres[p].handle.SessionID = rreq[p].sid
             /\ rres[p].handle.Runtime = rreq[p].rt

C23_Witness ==
    /\ \A p \in Procs :
         /\ rpc[p] = "start_done"
         /\ rreq[p].sid = "gt-a"
         /\ rres[p].err = Nil
         /\ rres[p].handle.SessionID = "gt-a"
    /\ [i \in 1..Len(calls) |-> calls[i].m] =
           <<"SendKeys", "SendKeys", "WaitForCommand", "WaitForCommand">>
    /\ \A i \in 1..Len(calls) : calls[i].s = "gt-a"
    /\ Cardinality(Injections("gt-a")) = 2

\* A Start that has returned after injecting its launch command.
Injected ==
    /\ Done
    /\ op.name = "Start"
    /\ \E i \in 1..Len(calls) : calls[i].m = "SendKeys" /\ calls[i].ok

\* A caller holds a handle for session s from a Start whose wait timed out.
HeldTimedOut(s) ==
    \E p \in Procs : rpc[p] = "timed_out" /\ rres[p].handle.SessionID = s

\* C22: a Start that injected its launch command returns a handle and no
\* error whether its wait saw the agent or timed out, so that a caller holds
\* a session as started or as timed out and never as failed; and an IsReady
\* on a session held as timed out whose capture shows the prompt reports
\* true.
C22_NoFailedState ==
    [][/\ Injected' =>
            /\ res'.err = Nil
            /\ res'.handle.SessionID = op'.sid
            /\ \E i \in 1..Len(calls') : calls'[i].m = "WaitForCommand"
       /\ \A p \in Procs :
            /\ rpc'[p] \in {"idle", "started", "timed_out"}
            /\ rpc'[p] # "idle" =>
                 /\ rres'[p].err = Nil
                 /\ rres'[p].handle.SessionID \in SessionIds
       /\ ( /\ op'.name = "IsReady"
            /\ op'.rt = "claude"
            /\ ncap' = ncap + 1
            /\ HeldTimedOut(op'.sid)
            /\ TRUE \in (capSeen' \ capSeen)
            /\ PromptVisible(TmuxCapturePaneLines(op'.sid, CaptureLines)) )
          => (pc' = "idle" /\ res'.err = Nil /\ res'.ok)]_vars

C22_Witness ==
    /\ Done
    /\ op.name = "IsReady"
    /\ op.rt = "claude"
    /\ res.ok
    /\ HeldTimedOut(op.sid)
    /\ \E p \in Procs : rpc[p] = "started"

\* isCodexRunning, called by Resume after its own HasSession, has returned
\* an error: its HasSession failed, or its GetPaneCommand did.
RunningCheckFailed(log) ==
    /\ Len(log) >= 2
    /\ log[1].ok
    /\ \/ ~log[2].ok
       \/ Len(log) >= 3 /\ log[3].m = "GetPaneCommand" /\ ~log[3].ok

\* The directory a Resume with the tmux calls log looks in: the handle's,
\* or the one GetPaneWorkDir returned; n is the number of calls before it.
ResumeDir(o, log, n) ==
    IF o.wd # "" THEN o.wd
    ELSE IF Len(log) > n /\ log[n + 1].m = "GetPaneWorkDir" /\ log[n + 1].ok
    THEN PaneWorkDir(o.sid)
    ELSE ""

\* C31: a Codex Resume whose already-running check returns an error does
\* not return that error: it reads the persisted session id, ends with the
\* missing-session-id error without one and with the command-unavailable
\* error without a template, and otherwise goes on to wait for the shell
\* with the resume command built from that id; and when such a Resume
\* returns nil it has sent that command.
C31_RunCheckErrorDropped ==
    [][(/\ op'.name = "Resume" /\ op'.rt = "codex"
        /\ RunningCheckFailed(calls')) =>
          LET n == IF calls'[2].ok THEN 3 ELSE 2
              dir == ResumeDir(op', calls', n)
              id == ReadSessionID(dir, op'.file)
          IN /\ op = NoOp =>
                  /\ id = <<>> => (pc' = "idle" /\ res'.err = ErrCodexMissingID(dir))
                  /\ (id # <<>> /\ op'.tmpl = <<>>) =>
                        (pc' = "idle" /\ res'.err = ErrCodexNoResumeCmd)
                  /\ (id # <<>> /\ op'.tmpl # <<>>) =>
                        /\ pc' = "resume_shell"
                        /\ resumeCmd' = BuildResumeCommand(op'.tmpl, id)
             /\ (pc' = "idle" /\ res'.err = Nil) =>
                  \E i \in 1..Len(calls') :
                      /\ calls'[i].m = "SendKeys"
                      /\ calls'[i].ok
                      /\ calls'[i].a = BuildResumeCommand(op'.tmpl, id)]_vars

C31_Witness ==
    /\ Done
    /\ op.name = "Resume"
    /\ op.rt = "codex"
    /\ Len(calls) >= 3
    /\ calls[3].m = "GetPaneCommand"
    /\ ~calls[3].ok
    /\ res.err = Nil
    /\ \E i \in 1..Len(calls) : calls[i].m = "SendKeys" /\ calls[i].ok

\* Resume has asked tmux for the directory of the session's pane.
DirAsked == \E i \in 1..Len(calls) : calls[i].m = "GetPaneWorkDir"

DirReported == \E i \in 1..Len(calls) : calls[i].m = "GetPaneWorkDir" /\ calls[i].ok

PastDirectory ==
    \E i \in 1..Len(calls) : calls[i].m \in {"GetPaneWorkDir", "WaitForShellReady"}

\* C32: a Codex Resume with a WorkDir in the handle never asks tmux for the
\* directory and looks for the session id under the handle's directory; one
\* with an empty WorkDir that gets past the already-running check asks tmux
\* and looks under the directory tmux reports, and when tmux reports none
\* it ends with the missing-session-id error having sent nothing.
C32_PartialHandle ==
    (op.name = "Resume" /\ op.rt = "codex" /\ op.bound) =>
        /\ op.wd # "" =>
             /\ ~DirAsked
             /\ (Done /\ res.err \in MissingIDErrors) => res.err = ErrCodexMissingID(op.wd)
        /\ op.wd = "" =>
             /\ (pc # "idle" \/ PastDirectory) => DirAsked
             /\ (DirAsked /\ ~DirReported) =>
                  /\ Done
                  /\ res.err = ErrCodexMissingID("")
                  /\ NothingSent
             /\ (DirReported /\ NoPersistedID(op.file)) =>
                  /\ Done
                  /\ res.err = ErrCodexMissingID(PaneWorkDir(op.sid))
                  /\ NothingSent
             /\ (DirReported /\ ~NoPersistedID(op.file) /\ op.tmpl # <<>>) =>
                  /\ res.err \notin MissingIDErrors
                  /\ pc # "idle" =>
                       resumeCmd = BuildResumeCommand(op.tmpl,
                                       ReadSessionID(PaneWorkDir(op.sid), op.file))

C32_Witness ==
    /\ Done
    /\ op.name = "Resume"
    /\ op.rt = "codex"
    /\ op.wd = ""
    /\ op.sid = "gt-b"
    /\ DirReported
    /\ res.err = Nil
    /\ \E i \in 1..Len(calls) :
           /\ calls[i].m = "SendKeys"
           /\ calls[i].ok
           /\ calls[i].a = BuildResumeCommand(op.tmpl, ReadSessionID("/w/", op.file))

\* The results of HasSession and GetPaneCommand that the log shows; a call
\* the log does not hold had no result, and either value stands for it.
HasResult == Len(calls) >= 1 /\ calls[1].ok

CmdResult == Len(calls) >= 2 /\ calls[2].ok

\* C33: a Codex IsReady returns the boolean and the error DetectRunning
\* returns for the same handle, the same sessions and the same results of
\* the tmux calls, after the same calls, and the other way round; both
\* return at once, without a capture, and answer true exactly when the
\* foreground command is one of the agent's.
C33_ReadyIsRunning ==
    (Done /\ op.rt = "codex" /\ op.name \in {"IsReady", "DetectRunning"}) =>
        /\ elapsed = 0
        /\ ncap = 0
        /\ ~op.bound =>
             /\ res = ErrResult(CodexIsReadyCheck(FALSE))
             /\ res = ErrResult(CodexDetectRunningCheck(FALSE))
             /\ calls = <<>>
        /\ op.bound =>
             /\ res = CodexIsReady(op.sid, HasResult, CmdResult).res
             /\ res = CodexDetectRunning(op.sid, HasResult, CmdResult).res
             /\ calls = CodexIsReady(op.sid, HasResult, CmdResult).calls
             /\ calls = CodexDetectRunning(op.sid, HasResult, CmdResult).calls
             /\ res.ok <=> /\ res.err = Nil
                           /\ Exists(op.sid)
                           /\ sess[op.sid].cmd \in {"codex", "node"}

C33_Witness ==
    /\ Done
    /\ op.rt = "codex"
    /\ op.name = "IsReady"
    /\ op.bound
    /\ Len(calls) = 2
    /\ ~calls[2].ok
    /\ res.err = BackendErr
    /\ res = CodexDetectRunning(op.sid, TRUE, FALSE).res

ReadOnlyOps == {"IsReady", "DetectRunning", "ListSessions"}

\* The tmux calls that ask and change nothing; the pane captures of
\* WaitForClaudeReady are counted in ncap.
QueryCalls ==
    {"HasSession", "GetPaneCommand", "IsClaudeRunning", "ListSessions",
     "FindSessionByWorkDir"}

\* C34: every step of an IsReady, a DetectRunning or a ListSessions, from
\* the call to the return, leaves the tmux sessions and their contents as
\* they were, leaves the request and the adapter it addresses as they were,
\* and has made none but query calls.
C34_ReadOnly ==
    [][(/\ op'.name \in ReadOnlyOps
        /\ <<pc, op, calls, ncap, res, elapsed>>' # <<pc, op, calls, ncap, res, elapsed>>) =>
          /\ sess' = sess
          /\ <<registry, lastWrite, replaced>>' = <<registry, lastWrite, replaced>>
          /\ op # NoOp => op' = op
          /\ \A i \in 1..Len(calls') : calls'[i].m \in QueryCalls]_vars

C34_Witness ==
    /\ Done
    /\ op.name = "IsReady"
    /\ op.rt = "claude"
    /\ op.bound
    /\ ncap >= 2
    /\ Exists(op.sid)
    /\ sess[op.sid].pane = PanePrompt
    /\ res.ok

\* C35: a SendMessage with Delivery "" passes the same checks as one with
\* Delivery "tmux" and the other way round, and what it does is what the
\* adapter's terminal delivery does for the handle and the text, whichever
\* of the two the message names: the same tmux calls and the same result.
C35_EmptyDeliveryIsTmux ==
    (Done /\ op.name = "SendMessage" /\ op.dlv \in {"", DeliveryTmux}) =>
        /\ SendMessageCheck(op.rt, op.bound, "") =
               SendMessageCheck(op.rt, op.bound, DeliveryTmux)
        /\ ~op.bound => (calls = <<>> /\ res = ErrResult(ErrRequiresTmux(op.rt)))
        /\ op.bound =>
             /\ Len(calls) >= 1
             /\ calls = Deliver(op.rt, op.sid, op.arg, calls[1].ok, calls[Len(calls)].ok)
             /\ res = IF AllOk(calls) THEN NoResult ELSE ErrResult(BackendErr)

C35_Witness ==
    /\ Done
    /\ op.name = "SendMessage"
    /\ op.rt = "claude"
    /\ op.dlv = ""
    /\ op.bound
    /\ Exists(op.sid)
    /\ res.err = Nil
    /\ [i \in 1..Len(calls) |-> calls[i].m] = <<"SendLiteral", "SendEnter">>

\* C36: what a capture of Claude IsReady leads to depends on the capture
\* alone, whatever the foreground command of the session is: IsReady
\* returns true on a capture only when the captured text shows the prompt,
\* and it goes on polling past a pane that shows the prompt only when a
\* capture failed; no tmux call other than the captures is made.  In the
\* witness IsReady returns true while DetectRunning answers false.
C36_ReadyFromPaneAlone ==
    [][Captures =>
        /\ calls' = <<>>
        /\ (pc' = "idle" /\ res'.ok) =>
             /\ Exists(op'.sid)
             /\ PromptVisible(TmuxCapturePaneLines(op'.sid, CaptureLines))
        /\ (/\ pc' = "poll_sleep"
            /\ Exists(op'.sid)
            /\ PromptVisible(TmuxCapturePaneLines(op'.sid, CaptureLines))) =>
             FALSE \in capSeen'
        /\ (pc' = "idle" /\ ~res'.ok) => res'.err = Nil]_vars

C36_Witness ==
    /\ Done
    /\ op.name = "IsReady"
    /\ op.rt = "claude"
    /\ res.ok
    /\ Exists(op.sid)
    /\ sess[op.sid].cmd = "bash"
    /\ ~TmuxIsClaudeRunning(op.sid)
    /\ ~ClaudeDetectRunning(op.sid).res.ok

\* C37: the handle a successful Start returns holds the adapter's name, the
\* SessionID and the WorkDir of the request, the time of the return, which
\* is a warmup later than the end of the wait, no PID and no ReadyAt; and
\* the handle a caller keeps changes only when that caller keeps the result
\* of another Start: no operation made afterwards alters it.
C37_HandleSnapshot ==
    [][/\ (pc = "start_sleep" /\ pc' = "idle") =>
            /\ res'.err = Nil
            /\ res'.handle = [Runtime |-> op.rt, SessionID |-> op.sid,
                              WorkDir |-> op.wd, PID |-> 0,
                              StartedAt |-> elapsed', ReadyAt |-> Unset]
            /\ calls'[2].m = "WaitForCommand"
            /\ res'.handle.StartedAt = calls'[2].at + Warmup(op.rt)
       /\ \A p \in Procs :
            rres'[p] # rres[p] =>
                /\ Done
                /\ op.name = "Start"
                /\ rres'[p] = res
                /\ rres'[p].handle.SessionID = op.sid]_vars

C37_Witness ==
    /\ Done
    /\ op.name = "Stop"
    /\ op.rt = "codex"
    /\ op.sid = "gt-a"
    /\ res.err = Nil
    /\ rpc["g1"] = "started"
    /\ rres["g1"].handle = [Runtime |-> "codex", SessionID |-> "gt-a", WorkDir |-> "/w",
                            PID |-> 0, StartedAt |-> CodexWarmup, ReadyAt |-> Unset]

\* The goroutines between two registry calls or with a call that returned.
Outside == {p \in Procs : rpc[p] \in {"idle", "reg_done", "get_done", "names_done"}}

\* C38: a goroutine whose registry call has returned, by any path, holds
\* neither lock, so that the lock is free whenever no call is in progress;
\* a Get holds the read lock while its factory runs, and a Register gets
\* the lock only when no Get is between its RLock and its return; and under
\* fair scheduling every Register that waits for the lock completes.
C38_LocksReleased ==
    /\ [](/\ \A p \in Outside : p \notin rwReaders /\ rwWriter # p
          /\ Outside = Procs => (rwWriter = NoProc /\ rwReaders = {})
          /\ \A p \in Procs : rpc[p] = "get_factory" => p \in rwReaders)
    /\ [][\A p \in Procs :
            (rpc[p] = "reg_wait" /\ rpc'[p] # "reg_wait") =>
                /\ rpc'[p] = "reg_locked"
                /\ \A q \in Procs : rpc[q] \notin {"get_locked", "get_factory"}]_vars
    /\ \A p \in Procs : (rpc[p] = "reg_wait") ~> (rpc[p] = "reg_done")

C38_Witness ==
    /\ rpc["g1"] = "reg_wait"
    /\ rpc["g2"] = "get_factory"
    /\ "g2" \in rwReaders
    /\ rwWriter = NoProc

\* Every string of the configuration is valid UTF-8.
ValidUTF8(config) ==
    /\ ToValidUTF8(config.Default) = config.Default
    /\ \A k \in DOMAIN config.Runtimes.m :
         /\ ToValidUTF8(k) = k
         /\ MarshalMap(config.Runtimes.m)[k] = config.Runtimes.m[k]

\* A Load of the path where config has just been saved returns a
\* configuration with config's default name and config's runtimes entries.
LoadsBack(path, config) ==
    LET r == LoadResult(path, files'[path]) IN
    /\ r.err = NilErr
    /\ r.config.Default = config.Default
    /\ r.config.Runtimes.m = config.Runtimes.m

LoadReturned(p) == rpc[p] = "idle" /\ rpc'[p] = "cfg_done" /\ rreq'[p].op = "Load"

Saved(p) ==
    /\ rpc[p] = "idle"
    /\ rpc'[p] = "cfg_done"
    /\ rreq'[p].op = "Save"
    /\ rres'[p].err = NilErr

LoadedRight(p) ==
    /\ files[rreq'[p].path].kind = "absent" =>
         /\ ErrorsIs(rres'[p].err, "ErrNotFound")
         /\ rres'[p].config = NilConfig
    /\ ErrorsIs(rres'[p].err, "ErrNotFound") => files[rreq'[p].path].kind = "absent"
    /\ rres'[p].err = NilErr =>
         /\ ~rres'[p].config.Runtimes.nil
         /\ files[rreq'[p].path].runtimes.is # "value" => rres'[p].config.Runtimes.m = <<>>

\* C39 as the claim words it: every configuration saved loads back with
\* the same default name and the same runtimes entries.
C39_EverySaveLoadsBack ==
    [][\A p \in Procs :
         /\ LoadReturned(p) => LoadedRight(p)
         /\ Saved(p) => LoadsBack(rreq'[p].path, rreq'[p].config)]_vars

\* C39: a Load of a path that holds no file returns an error that wraps
\* ErrNotFound and no configuration, and no other Load returns such an
\* error; a Load that succeeds returns a configuration whose Runtimes map
\* is not nil, and is empty when the file has no runtimes or a null one;
\* and a configuration whose strings are valid UTF-8, once saved, loads
\* back from the same path with the same default name and the same runtimes
\* entries.
C39_ConfigRoundTrip ==
    [][\A p \in Procs :
         /\ LoadReturned(p) => LoadedRight(p)
         /\ (Saved(p) /\ ValidUTF8(rreq'[p].config)) =>
              LoadsBack(rreq'[p].path, rreq'[p].config)]_vars

C39_Witness ==
    \E p \in Procs :
        /\ rpc[p] = "cfg_done"
        /\ rreq[p].op = "Load"
        /\ rres[p].err = NilErr
        /\ files[rreq[p].path] =
               MarshalIndent([Default |-> <<"claude">>,
                              Runtimes |-> MakeMap([k \in {<<"claude">>} |-> ClaudeConfig])])
        /\ rres[p].config.Default = <<"claude">>
        /\ rres[p].config.Runtimes = MakeMap([k \in {<<"claude">>} |-> ClaudeConfig])
        /\ files["/r/runtimes.json"].kind = "absent"

====
